---- MODULE Spec2Model ----
(***************************************************************************)
(* Model of the debug-adapter supervision code of vscode-lldb:             *)
(*   - extension/util.ts : waitForPattern, AdapterProcess,                 *)
(*                         startDebugAdapter                               *)
(*   - tests/adapter.test.ts : DebugTestSession (launch, attach,           *)
(*                             waitForStopEvent, ...)                      *)
(***************************************************************************)
EXTENDS Integers, Sequences, FiniteSets, TLC

(***************************************************************************)
(* Bounds of the model.                                                    *)
(***************************************************************************)
\* Largest number of bytes the adapter writes to its standard output.
MaxOut == 4
\* Number of concurrent setBreakpoint calls of a test.
MaxBp == 2
\* Number of waitForStopEvent calls of a test.
MaxStopWaiters == 2
\* Number of 'stopped' events the adapter emits.
MaxStops == 3
\* Number of continue requests of a test.
MaxContinues == 2
\* Number of messages the adapter has written and the session has not read.
MaxInFlight == 2
\* Number of iterations of expandDbgConfig's fixed-point loop that are followed.
MaxPasses == 6
\* calls of AdapterProcess.terminate followed
MaxTerminates == 2
\* Largest number of bytes the adapter writes to its standard error.
MaxErr == 3

(***************************************************************************)
(* Bytes and characters.                                                   *)
(* The adapter's stdout is a byte stream.  "L" stands for the literal      *)
(* prefix "Listening on port ", "4" for an ASCII digit, "n" for "\n", and  *)
(* "C2" "A0" are the two bytes of the UTF-8 encoding of U+00A0 (a          *)
(* character of the class \s).  Either of the two bytes alone is an        *)
(* invalid sequence and decodes to U+FFFD, which is no digit, no space and *)
(* no line terminator: it plays the part of every other character.         *)
(***************************************************************************)
Byte == {"L", "4", "n", "C2", "A0"}

Char == {"L", "4", "n", "nbsp", "fffd"}

\* Non-empty byte strings of at most k bytes.
RECURSIVE BytesUpTo(_)
BytesUpTo(k) ==
    IF k = 0 THEN {}
    ELSE LET shorter == BytesUpTo(k - 1)
         IN  {<<b>> : b \in Byte} \cup shorter
             \cup {Append(s, b) : s \in shorter, b \in Byte}

\* The chunks one 'data' event may carry when k more bytes can be written.
Chunks == [k \in 0..MaxOut |-> BytesUpTo(k)]

\* chunk.toString(): UTF-8 decoding of ONE chunk.  A lead byte whose
\* continuation byte is not in the same chunk, and a continuation byte
\* without a lead byte, each decode to U+FFFD.
RECURSIVE Utf8ToString(_)
Utf8ToString(bytes) ==
    IF bytes = <<>> THEN <<>>
    ELSE IF Head(bytes) = "C2"
         THEN IF Len(bytes) >= 2 /\ bytes[2] = "A0"
              THEN <<"nbsp">> \o Utf8ToString(SubSeq(bytes, 3, Len(bytes)))
              ELSE <<"fffd">> \o Utf8ToString(Tail(bytes))
         ELSE IF Head(bytes) = "A0"
              THEN <<"fffd">> \o Utf8ToString(Tail(bytes))
              ELSE <<Head(bytes)>> \o Utf8ToString(Tail(bytes))

(***************************************************************************)
(* The handshake pattern  new RegExp('^Listening on port (\\d+)\\s', 'm'). *)
(***************************************************************************)
IsDigit(c) == c = "4"

\* \s
IsSpace(c) == c \in {"n", "nbsp"}

\* A position where ^ matches under the m flag.
IsLineStart(text, i) == i = 1 \/ text[i - 1] = "n"

\* Index of the last digit of the maximal digit run starting at i (i - 1 if none).
RECURSIVE DigitRunEnd(_, _)
DigitRunEnd(text, i) ==
    IF i <= Len(text) /\ IsDigit(text[i]) THEN DigitRunEnd(text, i + 1) ELSE i - 1

\* The pattern matches at position i of text.
MatchesAt(text, i) ==
    /\ IsLineStart(text, i)
    /\ text[i] = "L"
    /\ LET e == DigitRunEnd(text, i + 1)
       IN  /\ e >= i + 1
           /\ e + 1 <= Len(text)
           /\ IsSpace(text[e + 1])

NoMatch == [found |-> FALSE, index |-> 0, group1 |-> <<>>]

\* pattern.exec(text): the leftmost match, with its first captured group.
PatternExec(text) ==
    LET hits == {i \in 1..Len(text) : MatchesAt(text, i)}
    IN  IF hits = {} THEN NoMatch
        ELSE LET i == CHOOSE j \in hits : \A k \in hits : j <= k
             IN  [found |-> TRUE, index |-> i,
                  group1 |-> SubSeq(text, i + 1, DigitRunEnd(text, i + 1))]

\* parseInt of a digit string.
RECURSIVE ParseInt(_)
ParseInt(digits) ==
    IF digits = <<>> THEN 0
    ELSE 10 * ParseInt(SubSeq(digits, 1, Len(digits) - 1)) + 4

(***************************************************************************)
(* State.                                                                  *)
(***************************************************************************)
VARIABLES
    \* the supervised child process, as the host observes it
    stdoutBytes,     \* every byte delivered on adapter.stdout so far
    stderrBytes,     \* every byte delivered on adapter.stderr so far
    lateData,        \* a 'data' event was delivered after the wait had been decided
    exitNotified,    \* the 'exit' event has been emitted
    errorNotified,   \* the 'error' event has been emitted
    killedByTimer,   \* process.kill() was called by waitForPattern's timer
    killedByTerminate, \* process.kill() was called by AdapterProcess.terminate
    terminateCalls,  \* calls of AdapterProcess.terminate so far
    \* waitForPattern's closure
    promisePending,
    processOutput,
    timer,           \* "armed", "cleared" or "fired"
    outcome,         \* the state of the promise waitForPattern returned
    \* startDebugAdapter and the AdapterProcess it returns
    startState,      \* "awaiting", "returned" or "threw"
    adapterProc,     \* "none" or "constructed"
    isAlive,
    port,
    \* DebugTestSession.start
    starter,         \* the function that starts the adapter: "startDebugAdapter" or
                     \* "DebugTestSession.start"
    debugServer,     \* process.env.DEBUG_SERVER, <<>> if it is not set
    sessionPort,     \* session.port, 0 while it is undefined
    connectPort,     \* the port session.start() was called with, 0 while it was not called
    \* spawnDebugger
    processEnv,      \* process.env of the host
    platform,        \* process.platform
    adapterEnv,      \* the adapterEnv argument
    spawnPc,         \* "idle", "called", "spawned" or "threw"
    spawnEnv,        \* options.env passed to cp.spawn, <<>> while nothing was spawned
    spawnThrown,     \* the Error thrown, if any
    \* the protocol session (DebugClient) of a DebugTestSession
    sessionState,    \* "Created", "Initializing", "Ready" or "Terminated"
    sequence,        \* the seq of the next Request
    pendingRequests, \* the seqs that await their Response
    requests,        \* requests[seq]: command, awaiting caller, result
    sent,            \* the seqs written to the adapter, in order
    inbox,           \* messages of the adapter not yet dispatched
    listeners,       \* the registered listeners of each event, in order
    jobs,            \* the queue of continuations ready to run
    \* the adapter behind the session
    answered,        \* the seqs the adapter has answered
    initializedEmitted,
    stopsEmitted,
    \* the asynchronous calls of a test
    waiters,         \* the waitForEvent('initialized') promise of each caller
    launchPc,
    launchCmd,       \* "launch" or "attach"
    bpPc,
    stopWaiters,     \* the promise of each waitForStopEvent call
    stoppedSeen,     \* the reasons of the 'stopped' events dispatched so far
    continues,       \* number of continue requests issued
    \* DebugTestSession.compareVariables
    expected,        \* the expected tree
    variables,       \* the children the adapter reports for each variablesReference
    cmpPc,           \* "called" or "done"
    cmpResult,       \* the outcome of the call
    varRefArg,       \* the reference the test passes to compareVariables
    \* expandDbgConfig
    dbgconfigConfig, \* the dbgconfig mapping passed in
    debugConfigArg,  \* the launch configuration passed in
    dbgconfig,       \* the working copy of the mapping
    debugConfig,     \* the launch configuration as returned
    converged,
    passes,          \* iterations of the do-while loop begun so far
    expandPc,        \* "fixpoint", "launchConfig", "returned" or "threw"
    thrown,          \* the Error thrown, if any
    \* withTimeout
    wrapped,         \* each call of withTimeout: its promise, timer and result
    \* extractZip
    zip              \* the archive, its entries' progress and the returned promise

\* the child process
procVars == <<stdoutBytes, stderrBytes, lateData, exitNotified, errorNotified, killedByTerminate,
              terminateCalls>>

\* what waitForPattern's listeners read and write
waitVars == <<promisePending, processOutput, timer, outcome, killedByTimer>>

\* startDebugAdapter and its AdapterProcess
adapterVars == <<startState, adapterProc, isAlive, port>>

\* the protocol session
sessionVars == <<sessionState, sequence, pendingRequests, requests, sent, inbox,
                 listeners, jobs>>

\* the adapter's side of the protocol
peerVars == <<answered, initializedEmitted, stopsEmitted>>

\* the calls of a test
testVars == <<waiters, launchPc, launchCmd, bpPc, stopWaiters, stoppedSeen, continues>>

protoVars == <<sessionVars, peerVars, testVars>>

\* compareVariables
cmpVars == <<expected, variables, cmpPc, cmpResult, varRefArg>>

\* expandDbgConfig
cfgVars == <<dbgconfigConfig, debugConfigArg, dbgconfig, debugConfig, converged, passes,
             expandPc, thrown>>

\* DebugTestSession.start
startVars == <<starter, debugServer, sessionPort, connectPort>>

\* spawnDebugger
spawnVars == <<processEnv, platform, adapterEnv, spawnPc, spawnEnv, spawnThrown>>

\* the helpers and the start of a test session, which run outside an open
\* session
\* withTimeout and extractZip
utilVars == <<wrapped, zip>>

toolVars == <<cmpVars, cfgVars, startVars, spawnVars, utilVars>>

vars == <<procVars, waitVars, adapterVars, protoVars, toolVars>>

Null == <<"null">>

Pending == [kind |-> "pending", code |-> "", match |-> NoMatch, stdout |-> <<>>]

Resolved(m) == [kind |-> "resolved", code |-> "", match |-> m, stdout |-> <<>>]

Rejected(code, out) == [kind |-> "rejected", code |-> code, match |-> NoMatch, stdout |-> out]

\* resolve()/reject() of a promise: only the first call settles it.
PromiseSettle(cur, new) == IF cur.kind = "pending" THEN new ELSE cur

\* The continuation of `await util.waitForPattern(...)` is a microtask: it
\* runs as soon as the promise has settled, before any further I/O event.
ContinuationQueued == outcome.kind # "pending" /\ startState = "awaiting"

\* An event loop that delivers I/O events, timers and calls of other code
\* while a continuation is still queued.
MicrotasksDrained_Always == TRUE

\* The event loop runs the next callback (an I/O event, a timer) only when
\* no microtask is queued.
MicrotasksDrained == ~ContinuationQueued

\* Callers of the session: the launch/attach call, the setBreakpoint calls.
Launch == <<"launch", 0>>

Bp(i) == <<"bp", i>>

NoCaller == <<"none", 0>>

Callers == {Launch} \cup {Bp(i) : i \in 1..MaxBp}

\* The session and the test before the first call.
InitProtocol ==
    /\ sessionState = "Created"
    /\ sequence = 1
    /\ pendingRequests = {}
    /\ requests = <<>>
    /\ sent = <<>>
    /\ inbox = <<>>
    /\ listeners = [initialized |-> <<>>, stopped |-> <<>>]
    /\ jobs = <<>>
    /\ answered = {}
    /\ initializedEmitted = FALSE
    /\ stopsEmitted = 0
    /\ waiters = [c \in Callers |-> "none"]
    /\ launchPc = "idle"
    /\ launchCmd = ""
    /\ bpPc = [i \in 1..MaxBp |-> "idle"]
    /\ stopWaiters = [k \in 1..MaxStopWaiters |-> [state |-> "unused", since |-> 0, event |-> 0]]
    /\ stoppedSeen = <<>>
    /\ continues = 0

\* No call of compareVariables or expandDbgConfig is in progress.
CompareIdle ==
    /\ expected = <<>>
    /\ variables = <<>>
    /\ cmpPc = "idle"
    /\ cmpResult = <<>>
    /\ varRefArg = 0

ExpandIdle ==
    /\ dbgconfigConfig = <<>>
    /\ debugConfigArg = <<>>
    /\ dbgconfig = <<>>
    /\ debugConfig = <<>>
    /\ converged = TRUE
    /\ passes = 0
    /\ expandPc = "idle"
    /\ thrown = <<>>

SpawnIdle ==
    /\ processEnv = <<>>
    /\ platform = "linux"
    /\ adapterEnv = <<>>
    /\ spawnPc = "idle"
    /\ spawnEnv = <<>>
    /\ spawnThrown = <<>>

\* No call of withTimeout or extractZip has been made.
UtilIdle ==
    /\ wrapped = <<>>
    /\ zip = <<>>

ToolsIdle == CompareIdle /\ ExpandIdle /\ SpawnIdle /\ UtilIdle

\* The adapter has been spawned and waitForPattern has been called.
InitSpawned ==
    /\ InitProtocol
    /\ ToolsIdle
    /\ stdoutBytes = <<>>
    /\ stderrBytes = <<>>
    /\ lateData = FALSE
    /\ exitNotified = FALSE
    /\ errorNotified = FALSE
    /\ killedByTimer = FALSE
    /\ killedByTerminate = FALSE
    /\ terminateCalls = 0
    /\ promisePending = TRUE
    /\ processOutput = <<>>
    /\ timer = "armed"
    /\ outcome = Pending
    /\ startState = "awaiting"
    /\ adapterProc = "none"
    /\ isAlive = FALSE
    /\ port = 0

\* startDebugAdapter has spawned the adapter and awaits the handshake.
InitHandshake ==
    /\ InitSpawned
    /\ starter = "startDebugAdapter"
    /\ debugServer = <<>>
    /\ sessionPort = 0
    /\ connectPort = 0

(***************************************************************************)
(* waitForPattern: the four callbacks it registers.                        *)
(***************************************************************************)
\* The data listener without its promisePending test: it goes on accumulating
\* and matching after the wait has been decided.
DataListener_Unguarded(chunk) ==
    LET chunkStr == Utf8ToString(chunk)
        acc == (IF processOutput = Null THEN <<>> ELSE processOutput) \o chunkStr
        match == PatternExec(acc)
    IN  IF match.found
        THEN /\ timer' = "cleared"
             /\ processOutput' = Null
             /\ promisePending' = FALSE
             /\ outcome' = PromiseSettle(outcome, Resolved(match))
             /\ UNCHANGED killedByTimer
        ELSE /\ processOutput' = acc
             /\ UNCHANGED <<timer, promisePending, outcome, killedByTimer>>

\* A spawn error reported to the caller as a premature exit.
ErrorListener_AsExit ==
    /\ promisePending' = FALSE
    /\ outcome' = PromiseSettle(outcome, Rejected("Handshake", processOutput))
    /\ UNCHANGED <<processOutput, timer, killedByTimer>>

\* channel.on('data', (chunk) => ...)
DataListener(chunk) ==
    LET chunkStr == Utf8ToString(chunk)
    IN  IF promisePending
        THEN LET acc == processOutput \o chunkStr
                 match == PatternExec(acc)
             IN  IF match.found
                 THEN /\ timer' = "cleared"
                      /\ processOutput' = Null
                      /\ promisePending' = FALSE
                      /\ outcome' = PromiseSettle(outcome, Resolved(match))
                      /\ UNCHANGED killedByTimer
                 ELSE /\ processOutput' = acc
                      /\ UNCHANGED <<timer, promisePending, outcome, killedByTimer>>
        ELSE UNCHANGED waitVars

\* process.on('error', (err) => ...)
ErrorListener ==
    /\ promisePending' = FALSE
    /\ outcome' = PromiseSettle(outcome, Rejected("SpawnError", <<>>))
    /\ UNCHANGED <<processOutput, timer, killedByTimer>>

\* The timer callback without its promisePending test.
TimerCallback_Unguarded ==
    /\ timer' = "fired"
    /\ killedByTimer' = TRUE
    /\ promisePending' = FALSE
    /\ outcome' = PromiseSettle(outcome, Rejected("Timeout", processOutput))
    /\ UNCHANGED processOutput

\* The timer callback rejecting without the accumulated output.
TimerCallback_NoStdout ==
    /\ timer' = "fired"
    /\ IF promisePending
       THEN /\ killedByTimer' = TRUE
            /\ promisePending' = FALSE
            /\ outcome' = PromiseSettle(outcome, Rejected("Timeout", <<>>))
       ELSE UNCHANGED <<killedByTimer, promisePending, outcome>>
    /\ UNCHANGED processOutput

\* setTimeout(() => ..., timeoutMillis)
TimerCallback ==
    /\ timer' = "fired"
    /\ IF promisePending
       THEN /\ killedByTimer' = TRUE
            /\ promisePending' = FALSE
            /\ outcome' = PromiseSettle(outcome, Rejected("Timeout", processOutput))
       ELSE UNCHANGED <<killedByTimer, promisePending, outcome>>
    /\ UNCHANGED processOutput

\* The exit listener clearing the flag but never calling reject.
ExitListener_NoReject ==
    /\ promisePending' = FALSE
    /\ UNCHANGED <<outcome, processOutput, timer, killedByTimer>>

\* The exit listener reporting a premature exit as a timeout.
ExitListener_WrongCode ==
    /\ IF promisePending
       THEN /\ promisePending' = FALSE
            /\ outcome' = PromiseSettle(outcome, Rejected("Timeout", processOutput))
       ELSE UNCHANGED <<promisePending, outcome>>
    /\ UNCHANGED <<processOutput, timer, killedByTimer>>

\* process.on('exit', (code, signal) => ...) of waitForPattern
ExitListener ==
    /\ IF promisePending
       THEN /\ promisePending' = FALSE
            /\ outcome' = PromiseSettle(outcome, Rejected("Handshake", processOutput))
       ELSE UNCHANGED <<promisePending, outcome>>
    /\ UNCHANGED <<processOutput, timer, killedByTimer>>

(***************************************************************************)
(* AdapterProcess.                                                         *)
(***************************************************************************)
\* constructor(process)
AdapterProcessNew ==
    /\ adapterProc' = "constructed"
    /\ isAlive' = TRUE

\* An exit listener that leaves isAlive as it is.
AdapterProcessOnExit_Stale == UNCHANGED isAlive

\* process.on('exit', (code, signal) => ...) of the constructor
AdapterProcessOnExit ==
    IF adapterProc = "constructed"
    THEN isAlive' = FALSE
    ELSE UNCHANGED isAlive

\* A terminate() that calls process.kill() whether or not the process is
\* alive.
TerminateKills_Always == TRUE

\* terminate(): the kill signal it sends, if any
TerminateKills == isAlive

(***************************************************************************)
(* Events of the handshake.                                                *)
(***************************************************************************)
\* adapter.stdout emits 'data'
OnData(chunk) ==
    /\ MicrotasksDrained
    /\ stdoutBytes' = stdoutBytes \o chunk
    /\ lateData' = (lateData \/ ~promisePending)
    /\ DataListener(chunk)
    /\ UNCHANGED <<stderrBytes, exitNotified, errorNotified, killedByTerminate,
                   terminateCalls, adapterVars, protoVars, toolVars>>

\* The 'data' listener of adapter.stderr: logProcessOutput appends the chunk
\* to the output channel (the test session pipes it to its log stream);
\* waitForPattern registers its listener on `channel`, which both callers
\* give as adapter.stdout, so nothing of the wait is read or written.
StderrListener_Watched(chunk) == DataListener(chunk)

StderrListener(chunk) == UNCHANGED waitVars

\* The chunks one 'data' event of adapter.stderr may carry: the handshake
\* line, whole or in pieces.
StderrChunks == {<<"L", "4", "n">>, <<"L", "4">>, <<"n">>}

\* adapter.stderr emits 'data'
OnStderrData(chunk) ==
    /\ MicrotasksDrained
    /\ Len(stderrBytes) + Len(chunk) <= MaxErr
    /\ stderrBytes' = stderrBytes \o chunk
    /\ StderrListener(chunk)
    /\ UNCHANGED <<stdoutBytes, lateData, exitNotified, errorNotified, killedByTerminate,
                   terminateCalls, adapterVars, protoVars, toolVars>>

\* the child process emits 'error'
OnError ==
    /\ MicrotasksDrained
    /\ ~errorNotified
    /\ errorNotified' = TRUE
    /\ ErrorListener
    /\ UNCHANGED <<stdoutBytes, stderrBytes, lateData, exitNotified, killedByTerminate, terminateCalls,
                   adapterVars,
                   protoVars, toolVars>>

\* the timer set by waitForPattern expires
OnTimer ==
    /\ MicrotasksDrained
    /\ timer = "armed"
    /\ TimerCallback
    /\ UNCHANGED <<procVars, adapterVars, protoVars, toolVars>>

\* The child process emits 'exit': every registered listener runs, in
\* registration order.
ExitEvent ==
    /\ MicrotasksDrained
    /\ ~exitNotified
    /\ exitNotified' = TRUE
    /\ ExitListener
    /\ AdapterProcessOnExit
    /\ UNCHANGED <<stdoutBytes, stderrBytes, lateData, errorNotified, killedByTerminate, terminateCalls,
                   startState, adapterProc, port>>

\* 'exit' while no protocol session is open
OnExit == ExitEvent /\ UNCHANGED <<protoVars, toolVars>>

\* startDebugAdapter after `await util.waitForPattern(...)`.
StartDebugAdapterResume ==
    /\ ContinuationQueued
    /\ starter = "startDebugAdapter"
    /\ IF outcome.kind = "resolved"
       THEN /\ AdapterProcessNew
            /\ port' = ParseInt(outcome.match.group1)
            /\ startState' = "returned"
       ELSE /\ startState' = "threw"
            /\ UNCHANGED <<adapterProc, isAlive, port>>
    /\ UNCHANGED <<procVars, waitVars, protoVars, toolVars>>

\* A caller invokes AdapterProcess.terminate().
Terminate ==
    /\ MicrotasksDrained
    /\ adapterProc = "constructed"
    /\ terminateCalls < MaxTerminates
    /\ terminateCalls' = terminateCalls + 1
    /\ killedByTerminate' = (killedByTerminate \/ TerminateKills)
    /\ UNCHANGED <<stdoutBytes, stderrBytes, lateData, exitNotified, errorNotified, waitVars, adapterVars,
                   protoVars, toolVars>>

NextHandshake ==
    \/ \E chunk \in Chunks[MaxOut - Len(stdoutBytes)] : OnData(chunk)
    \/ OnError
    \/ OnTimer
    \/ OnExit
    \/ StartDebugAdapterResume
    \/ Terminate

SpecHandshake == InitHandshake /\ [][NextHandshake]_vars

\* The handshake of an adapter that writes to both of its output channels.
NextChannels ==
    \/ NextHandshake
    \/ \E chunk \in StderrChunks : OnStderrData(chunk)

SpecChannels == InitHandshake /\ [][NextChannels]_vars

(***************************************************************************)
(* DebugTestSession.start: the test session spawns the adapter, awaits the *)
(* handshake and connects, or connects to the port of DEBUG_SERVER.        *)
(***************************************************************************)
\* A DEBUG_SERVER value the runs are started with.
ServerPort == <<"4", "4", "4">>

\* No adapter has been spawned and waitForPattern has not been called.
NotSpawned ==
    /\ stdoutBytes = <<>>
    /\ stderrBytes = <<>>
    /\ lateData = FALSE
    /\ exitNotified = FALSE
    /\ errorNotified = FALSE
    /\ killedByTimer = FALSE
    /\ killedByTerminate = FALSE
    /\ terminateCalls = 0
    /\ promisePending = FALSE
    /\ processOutput = <<>>
    /\ timer = "cleared"
    /\ outcome = Pending
    /\ startState = "begin"
    /\ adapterProc = "none"
    /\ isAlive = FALSE
    /\ port = 0

\* DebugTestSession.start is entered with DEBUG_SERVER set: no adapter is
\* spawned and waitForPattern is not called.
InitDebugServer ==
    /\ InitProtocol
    /\ ToolsIdle
    /\ NotSpawned
    /\ starter = "DebugTestSession.start"
    /\ debugServer = ServerPort
    /\ sessionPort = 0
    /\ connectPort = 0

\* The adapter is being started by startDebugAdapter or by
\* DebugTestSession.start.
InitStart ==
    \/ InitHandshake
    \/ /\ InitSpawned
       /\ starter = "DebugTestSession.start"
       /\ debugServer = <<>>
       /\ sessionPort = 0
       /\ connectPort = 0
    \/ InitDebugServer

\* An adapter process was spawned.
Spawned == debugServer = <<>>

\* A start of the test session that calls session.start(port) whatever the
\* outcome of the wait.
TestSessionResume_ConnectsAnyway ==
    /\ ContinuationQueued
    /\ starter = "DebugTestSession.start"
    /\ sessionPort' = (IF outcome.kind = "resolved" THEN ParseInt(outcome.match.group1) ELSE 4)
    /\ connectPort' = sessionPort'
    /\ startState' = "returned"
    /\ UNCHANGED <<procVars, waitVars, adapterProc, isAlive, port, protoVars, cmpVars,
                   cfgVars, spawnVars, utilVars, starter, debugServer>>

\* DebugTestSession.start after `await util.waitForPattern(...)`:
\* `session.port = parseInt(match[1])` and `await session.start(session.port)`.
TestSessionResume ==
    /\ ContinuationQueued
    /\ starter = "DebugTestSession.start"
    /\ IF outcome.kind = "resolved"
       THEN /\ sessionPort' = ParseInt(outcome.match.group1)
            /\ connectPort' = sessionPort'
            /\ startState' = "returned"
       ELSE /\ startState' = "threw"
            /\ UNCHANGED <<sessionPort, connectPort>>
    /\ UNCHANGED <<procVars, waitVars, adapterProc, isAlive, port, protoVars, cmpVars,
                   cfgVars, spawnVars, utilVars, starter, debugServer>>

\* DebugTestSession.start with DEBUG_SERVER set:
\* `session.port = parseInt(process.env.DEBUG_SERVER)` and
\* `await session.start(session.port)`.
TestSessionConnectServer ==
    /\ starter = "DebugTestSession.start"
    /\ debugServer # <<>>
    /\ startState = "begin"
    /\ sessionPort' = ParseInt(debugServer)
    /\ connectPort' = sessionPort'
    /\ startState' = "returned"
    /\ UNCHANGED <<procVars, waitVars, adapterProc, isAlive, port, protoVars, cmpVars,
                   cfgVars, spawnVars, utilVars, starter, debugServer>>

NextStart ==
    \/ \E chunk \in Chunks[MaxOut - Len(stdoutBytes)] : Spawned /\ OnData(chunk)
    \/ Spawned /\ OnError
    \/ Spawned /\ OnTimer
    \/ Spawned /\ OnExit
    \/ StartDebugAdapterResume
    \/ TestSessionResume
    \/ TestSessionConnectServer
    \/ Terminate

SpecStart == InitStart /\ [][NextStart]_vars

(***************************************************************************)
(* The protocol session.  DebugTestSession extends DebugClient; the        *)
(* request/response correlation and the event dispatch are DebugClient's.  *)
(***************************************************************************)
handshakeVars == <<procVars, waitVars, adapterVars>>

PendingResult == [kind |-> "pending", request_seq |-> 0]

TerminatedResult == [kind |-> "terminated", request_seq |-> 0]

Request(cmd, caller, result) == [command |-> cmd, caller |-> caller, result |-> result]

Response(seq, ok) ==
    [type |-> "response", request_seq |-> seq, success |-> ok, event |-> "", reason |-> ""]

Event(name, reason) ==
    [type |-> "event", request_seq |-> 0, success |-> TRUE, event |-> name, reason |-> reason]

\* sendRequest(command, args): allocates the next seq, writes the Request and
\* registers the PendingRequest; on a terminated session it fails at once.
SendRequest(cmd, caller) ==
    /\ sequence' = sequence + 1
    /\ IF sessionState = "Terminated"
       THEN /\ requests' = Append(requests, Request(cmd, caller, TerminatedResult))
            /\ UNCHANGED <<pendingRequests, sent, sessionState>>
       ELSE /\ requests' = Append(requests, Request(cmd, caller, PendingResult))
            /\ pendingRequests' = pendingRequests \cup {sequence}
            /\ sent' = Append(sent, sequence)
            /\ sessionState' = IF cmd = "initialize" /\ sessionState = "Created"
                               THEN "Initializing" ELSE sessionState

\* The continuations made ready by a sendRequest that `caller` awaits.
AfterSend(queue, caller) ==
    IF sessionState = "Terminated" THEN Append(queue, caller) ELSE queue

\* A Response answers the oldest pending request, whatever its request_seq.
Correlate_Oldest(msg) ==
    IF pendingRequests = {} THEN msg.request_seq
    ELSE CHOOSE s \in pendingRequests : \A t \in pendingRequests : s <= t

\* The PendingRequest a Response answers: the one whose seq is its request_seq.
Correlate(msg) == msg.request_seq

\* Session teardown that only marks the session terminated.
Teardown_KeepPending ==
    /\ sessionState' = "Terminated"
    /\ inbox' = <<>>
    /\ UNCHANGED <<pendingRequests, requests, jobs, sequence, sent, listeners>>

\* Session teardown (explicit stop, or death of the process): every
\* outstanding PendingRequest fails with SessionTerminated.
Teardown ==
    /\ sessionState' = "Terminated"
    /\ pendingRequests' = {}
    /\ requests' = [s \in DOMAIN requests |->
                      IF s \in pendingRequests
                      THEN Request(requests[s].command, requests[s].caller, TerminatedResult)
                      ELSE requests[s]]
    /\ inbox' = <<>>
    /\ LET awaited == SelectSeq(sent, LAMBDA s : s \in pendingRequests
                                                  /\ requests[s].caller # NoCaller)
       IN  jobs' = jobs \o [i \in 1..Len(awaited) |-> requests[awaited[i]].caller]
    /\ UNCHANGED <<sequence, sent, listeners>>

\* A read loop that takes a Response from anywhere in the queue, ahead of the
\* Events that arrived before it.
DispatchResponse_AnyPosition ==
    /\ jobs = <<>>
    /\ \E i \in 1..Len(inbox) :
          /\ inbox[i].type = "response"
          /\ inbox' = SubSeq(inbox, 1, i - 1) \o SubSeq(inbox, i + 1, Len(inbox))
          /\ LET msg == inbox[i]
                 s == Correlate(msg)
             IN  IF s \in pendingRequests
                 THEN /\ pendingRequests' = pendingRequests \ {s}
                      /\ requests' = [requests EXCEPT ![s].result =
                                        [kind |-> IF msg.success THEN "ok" ELSE "error",
                                         request_seq |-> msg.request_seq]]
                      /\ jobs' = IF requests[s].caller # NoCaller
                                 THEN <<requests[s].caller>> ELSE <<>>
                 ELSE UNCHANGED <<pendingRequests, requests, jobs>>
    /\ UNCHANGED <<sessionState, sequence, sent, listeners, peerVars, testVars,
                   handshakeVars, toolVars>>

\* The read loop dispatches a Response.
DispatchResponse ==
    /\ jobs = <<>> /\ inbox # <<>> /\ Head(inbox).type = "response"
    /\ inbox' = Tail(inbox)
    /\ LET msg == Head(inbox)
           s == Correlate(msg)
       IN  IF s \in pendingRequests
           THEN /\ pendingRequests' = pendingRequests \ {s}
                /\ requests' = [requests EXCEPT ![s].result =
                                  [kind |-> IF msg.success THEN "ok" ELSE "error",
                                   request_seq |-> msg.request_seq]]
                /\ jobs' = IF requests[s].caller # NoCaller
                           THEN <<requests[s].caller>> ELSE <<>>
           ELSE UNCHANGED <<pendingRequests, requests, jobs>>
    /\ UNCHANGED <<sessionState, sequence, sent, listeners, peerVars, testVars,
                   handshakeVars, toolVars>>

\* The caller's `await` of its waitForEvent('initialized') promise is reached.
AwaitsInitialized(c) ==
    IF c = Launch THEN launchPc = "awaitInitialized"
    ELSE bpPc[c[2]] = "awaitInitialized"

\* The read loop dispatches the 'initialized' Event: every listener
\* registered by waitForEvent runs once and is removed.
DispatchInitialized ==
    /\ jobs = <<>> /\ inbox # <<>>
    /\ Head(inbox).type = "event" /\ Head(inbox).event = "initialized"
    /\ inbox' = Tail(inbox)
    /\ listeners' = [listeners EXCEPT !.initialized = <<>>]
    /\ LET notified == {listeners.initialized[i] : i \in 1..Len(listeners.initialized)}
       IN  waiters' = [c \in Callers |-> IF c \in notified THEN "resolved" ELSE waiters[c]]
    /\ jobs' = SelectSeq(listeners.initialized, AwaitsInitialized)
    /\ sessionState' = IF sessionState = "Initializing" THEN "Ready" ELSE sessionState
    /\ UNCHANGED <<sequence, pendingRequests, requests, sent, peerVars,
                   launchPc, launchCmd, bpPc, stopWaiters, stoppedSeen, continues,
                   handshakeVars, toolVars>>

\* A stop handler that takes every 'stopped' event.
StopHandlerResolves_Any(reason) == TRUE

\* handler of waitForStopEvent: the test of event.body.reason
StopHandlerResolves(reason) == reason # "initial"

\* A dispatch in which the first handler that resolves consumes the event:
\* the handlers registered after it are not called.
DispatchStopped_FirstOnly ==
    /\ jobs = <<>> /\ inbox # <<>>
    /\ Head(inbox).type = "event" /\ Head(inbox).event = "stopped"
    /\ inbox' = Tail(inbox)
    /\ stoppedSeen' = Append(stoppedSeen, Head(inbox).reason)
    /\ LET reason == Head(inbox).reason
           taken == listeners.stopped # <<>> /\ StopHandlerResolves(reason)
       IN  /\ listeners' = [listeners EXCEPT !.stopped = IF taken THEN Tail(@) ELSE @]
           /\ stopWaiters' = [k \in 1..MaxStopWaiters |->
                                IF taken /\ k = Head(listeners.stopped)
                                THEN [state |-> "resolved",
                                      since |-> stopWaiters[k].since,
                                      event |-> Len(stoppedSeen) + 1]
                                ELSE stopWaiters[k]]
    /\ UNCHANGED <<sessionState, sequence, pendingRequests, requests, sent, jobs,
                   peerVars, waiters, launchPc, launchCmd, bpPc, continues,
                   handshakeVars, toolVars>>

\* A handler that resolves its waiter and stays registered.
DispatchStopped_NoRemove ==
    /\ jobs = <<>> /\ inbox # <<>>
    /\ Head(inbox).type = "event" /\ Head(inbox).event = "stopped"
    /\ inbox' = Tail(inbox)
    /\ stoppedSeen' = Append(stoppedSeen, Head(inbox).reason)
    /\ LET reason == Head(inbox).reason
           called == {listeners.stopped[i] : i \in 1..Len(listeners.stopped)}
       IN  stopWaiters' = [k \in 1..MaxStopWaiters |->
                             IF k \in called /\ StopHandlerResolves(reason)
                             THEN [state |-> "resolved",
                                   since |-> stopWaiters[k].since,
                                   event |-> Len(stoppedSeen) + 1]
                             ELSE stopWaiters[k]]
    /\ UNCHANGED <<sessionState, sequence, pendingRequests, requests, sent, jobs, listeners,
                   peerVars, waiters, launchPc, launchCmd, bpPc, continues,
                   handshakeVars, toolVars>>

\* The read loop dispatches a 'stopped' Event to the handlers of
\* waitForStopEvent.
DispatchStopped ==
    /\ jobs = <<>> /\ inbox # <<>>
    /\ Head(inbox).type = "event" /\ Head(inbox).event = "stopped"
    /\ inbox' = Tail(inbox)
    /\ stoppedSeen' = Append(stoppedSeen, Head(inbox).reason)
    /\ LET reason == Head(inbox).reason
           called == {listeners.stopped[i] : i \in 1..Len(listeners.stopped)}
       IN  /\ listeners' = [listeners EXCEPT !.stopped =
                               SelectSeq(listeners.stopped,
                                         LAMBDA k : ~StopHandlerResolves(reason))]
           /\ stopWaiters' = [k \in 1..MaxStopWaiters |->
                                IF k \in called /\ StopHandlerResolves(reason)
                                THEN [state |-> "resolved",
                                      since |-> stopWaiters[k].since,
                                      event |-> Len(stoppedSeen) + 1]
                                ELSE stopWaiters[k]]
    /\ UNCHANGED <<sessionState, sequence, pendingRequests, requests, sent, jobs,
                   peerVars, waiters, launchPc, launchCmd, bpPc, continues,
                   handshakeVars, toolVars>>

(***************************************************************************)
(* The adapter's side: it answers each request once, in any order, and     *)
(* emits events.                                                           *)
(***************************************************************************)
AdapterRespond(s, ok) ==
    /\ ~exitNotified /\ sessionState # "Terminated"
    /\ Len(inbox) < MaxInFlight
    /\ s \in {sent[i] : i \in 1..Len(sent)}
    /\ s \notin answered
    /\ answered' = answered \cup {s}
    /\ inbox' = Append(inbox, Response(s, ok))
    /\ UNCHANGED <<sessionState, sequence, pendingRequests, requests, sent, listeners,
                   jobs, initializedEmitted, stopsEmitted, testVars, handshakeVars, toolVars>>

AdapterInitialized ==
    /\ ~exitNotified /\ sessionState # "Terminated"
    /\ Len(inbox) < MaxInFlight
    /\ ~initializedEmitted
    /\ \E i \in 1..Len(sent) : requests[sent[i]].command = "initialize"
    /\ initializedEmitted' = TRUE
    /\ inbox' = Append(inbox, Event("initialized", ""))
    /\ UNCHANGED <<sessionState, sequence, pendingRequests, requests, sent, listeners,
                   jobs, answered, stopsEmitted, testVars, handshakeVars, toolVars>>

AdapterStopped(reason) ==
    /\ ~exitNotified /\ sessionState # "Terminated"
    /\ Len(inbox) < MaxInFlight
    /\ stopsEmitted < MaxStops
    /\ stopsEmitted' = stopsEmitted + 1
    /\ inbox' = Append(inbox, Event("stopped", reason))
    /\ UNCHANGED <<sessionState, sequence, pendingRequests, requests, sent, listeners,
                   jobs, answered, initializedEmitted, testVars, handshakeVars, toolVars>>

(***************************************************************************)
(* DebugTestSession: the asynchronous calls of the tests.                  *)
(***************************************************************************)
\* `await waitForInit` continues at once.
InitializedSettled_Always(c) == TRUE

\* `await waitForInit` never finds the promise resolved: an event that came
\* before the initialize response is lost.
InitializedSettled_Never(c) == FALSE

\* `await waitForInit`: the awaited promise is already resolved.
InitializedSettled(c) == waiters[c] = "resolved"

\* launch(launchArgs) / attach(attachArgs), up to `await this.initializeRequest()`
CallLaunch(cmd) ==
    /\ jobs = <<>> /\ launchPc = "idle"
    /\ launchCmd' = cmd
    /\ waiters' = [waiters EXCEPT ![Launch] = "pending"]
    /\ listeners' = [listeners EXCEPT !.initialized = Append(@, Launch)]
    /\ SendRequest("initialize", Launch)
    /\ jobs' = AfterSend(jobs, Launch)
    /\ launchPc' = "awaitInitializeResp"
    /\ UNCHANGED <<inbox, peerVars, bpPc, stopWaiters, stoppedSeen, continues,
                   handshakeVars, toolVars>>

\* launch/attach after `await this.initializeRequest()`: sends the
\* launch/attach request and awaits waitForInit.
LaunchAfterInitializeResponse ==
    /\ jobs # <<>> /\ Head(jobs) = Launch /\ launchPc = "awaitInitializeResp"
    /\ LET init == CHOOSE s \in DOMAIN requests : requests[s].command = "initialize"
       IN  IF requests[init].result.kind = "ok"
           THEN /\ SendRequest(launchCmd, NoCaller)
                /\ launchPc' = "awaitInitialized"
                /\ jobs' = IF InitializedSettled(Launch)
                           THEN Append(Tail(jobs), Launch) ELSE Tail(jobs)
           ELSE /\ launchPc' = "threw"
                /\ jobs' = Tail(jobs)
                /\ UNCHANGED <<sessionState, sequence, pendingRequests, requests, sent>>
    /\ UNCHANGED <<inbox, listeners, peerVars, waiters, launchCmd, bpPc, stopWaiters,
                   stoppedSeen, continues, handshakeVars, toolVars>>

\* launch/attach after `await waitForInit`: sends configurationDone and
\* returns the promise of the launch/attach response.
LaunchAfterInitialized ==
    /\ jobs # <<>> /\ Head(jobs) = Launch /\ launchPc = "awaitInitialized"
    /\ SendRequest("configurationDone", NoCaller)
    /\ launchPc' = "returned"
    /\ jobs' = Tail(jobs)
    /\ UNCHANGED <<inbox, listeners, peerVars, waiters, launchCmd, bpPc, stopWaiters,
                   stoppedSeen, continues, handshakeVars, toolVars>>

\* setBreakpoint(file, line), up to `await this.waitForEvent('initialized')`
CallSetBreakpoint(i) ==
    /\ jobs = <<>> /\ bpPc[i] = "idle"
    /\ \A j \in 1..(i - 1) : bpPc[j] # "idle"
    /\ waiters' = [waiters EXCEPT ![Bp(i)] = "pending"]
    /\ listeners' = [listeners EXCEPT !.initialized = Append(@, Bp(i))]
    /\ bpPc' = [bpPc EXCEPT ![i] = "awaitInitialized"]
    /\ UNCHANGED <<sessionState, sequence, pendingRequests, requests, sent, inbox, jobs,
                   peerVars, launchPc, launchCmd, stopWaiters, stoppedSeen, continues,
                   handshakeVars, toolVars>>

\* setBreakpoint after the 'initialized' event: sends setBreakpoints.
SetBreakpointAfterInitialized(i) ==
    /\ jobs # <<>> /\ Head(jobs) = Bp(i) /\ bpPc[i] = "awaitInitialized"
    /\ SendRequest("setBreakpoints", Bp(i))
    /\ jobs' = AfterSend(Tail(jobs), Bp(i))
    /\ bpPc' = [bpPc EXCEPT ![i] = "awaitResponse"]
    /\ UNCHANGED <<inbox, listeners, peerVars, waiters, launchPc, launchCmd,
                   stopWaiters, stoppedSeen, continues, handshakeVars, toolVars>>

\* setBreakpoint after the setBreakpoints response.
SetBreakpointAfterResponse(i) ==
    /\ jobs # <<>> /\ Head(jobs) = Bp(i) /\ bpPc[i] = "awaitResponse"
    /\ LET mine == CHOOSE s \in DOMAIN requests : requests[s].caller = Bp(i)
       IN  bpPc' = [bpPc EXCEPT ![i] = IF requests[mine].result.kind = "ok"
                                       THEN "returned" ELSE "threw"]
    /\ jobs' = Tail(jobs)
    /\ UNCHANGED <<sessionState, sequence, pendingRequests, requests, sent, inbox,
                   listeners, peerVars, waiters, launchPc, launchCmd, stopWaiters,
                   stoppedSeen, continues, handshakeVars, toolVars>>

\* waitForStopEvent(): registers its handler for 'stopped'.
CallWaitForStopEvent(k) ==
    /\ jobs = <<>> /\ stopWaiters[k].state = "unused"
    /\ \A j \in 1..(k - 1) : stopWaiters[j].state # "unused"
    /\ stopWaiters' = [stopWaiters EXCEPT ![k] =
                          [state |-> "pending", since |-> Len(stoppedSeen), event |-> 0]]
    /\ listeners' = [listeners EXCEPT !.stopped = Append(@, k)]
    /\ UNCHANGED <<sessionState, sequence, pendingRequests, requests, sent, inbox, jobs,
                   peerVars, waiters, launchPc, launchCmd, bpPc, stoppedSeen, continues,
                   handshakeVars, toolVars>>

\* ds.continueRequest({ threadId: 0 })
CallContinue ==
    /\ jobs = <<>> /\ continues < MaxContinues
    /\ continues' = continues + 1
    /\ SendRequest("continue", NoCaller)
    /\ UNCHANGED <<inbox, listeners, jobs, peerVars, waiters, launchPc, launchCmd, bpPc,
                   stopWaiters, stoppedSeen, handshakeVars, toolVars>>

\* DebugTestSession.terminate(): super.stop()
CallTerminate ==
    /\ jobs = <<>> /\ sessionState # "Terminated"
    /\ Teardown
    /\ UNCHANGED <<peerVars, testVars, handshakeVars, toolVars>>

\* The adapter process exits while the session is open.
SessionOnExit ==
    /\ jobs = <<>>
    /\ ExitEvent
    /\ Teardown
    /\ UNCHANGED <<peerVars, testVars, toolVars>>

\* A session connected to an adapter whose handshake has completed.
InitAdapterReady ==
    /\ stdoutBytes = <<"L", "4", "n">>
    /\ stderrBytes = <<>>
    /\ lateData = FALSE
    /\ exitNotified = FALSE
    /\ errorNotified = FALSE
    /\ killedByTimer = FALSE
    /\ killedByTerminate = FALSE
    /\ terminateCalls = 0
    /\ promisePending = FALSE
    /\ processOutput = Null
    /\ timer = "cleared"
    /\ outcome = Resolved(PatternExec(<<"L", "4", "n">>))
    /\ startState = "returned"
    /\ adapterProc = "constructed"
    /\ isAlive = TRUE
    /\ port = 4
    /\ starter = "startDebugAdapter"
    /\ debugServer = <<>>
    /\ sessionPort = 4
    /\ connectPort = 4

InitSession == InitProtocol /\ InitAdapterReady /\ ToolsIdle

\* A test that launches (or attaches) and sets breakpoints.
NextSession ==
    \/ \E cmd \in {"launch", "attach"} : CallLaunch(cmd)
    \/ LaunchAfterInitializeResponse
    \/ LaunchAfterInitialized
    \/ \E i \in 1..MaxBp : CallSetBreakpoint(i)
    \/ \E i \in 1..MaxBp : SetBreakpointAfterInitialized(i)
    \/ \E i \in 1..MaxBp : SetBreakpointAfterResponse(i)
    \/ Terminate
    \/ SessionOnExit
    \/ \E s \in DOMAIN requests, ok \in BOOLEAN : AdapterRespond(s, ok)
    \/ AdapterInitialized
    \/ DispatchResponse
    \/ DispatchInitialized

SpecSession == InitSession /\ [][NextSession]_vars

\* The event loop of the test process: a continuation that is ready runs, and
\* a message that has been read is dispatched.  Nothing obliges the adapter
\* to answer or to emit an event.
EventLoopFairness ==
    /\ WF_vars(LaunchAfterInitializeResponse)
    /\ WF_vars(LaunchAfterInitialized)
    /\ WF_vars(\E i \in 1..MaxBp : SetBreakpointAfterInitialized(i))
    /\ WF_vars(\E i \in 1..MaxBp : SetBreakpointAfterResponse(i))
    /\ WF_vars(DispatchResponse)
    /\ WF_vars(DispatchInitialized)

SpecSessionFair == SpecSession /\ EventLoopFairness

\* A test that calls setBreakpoint (or setFnBreakpoint) and then launch, as
\* 'stop on a breakpoint 1' does: no breakpoint call follows the call of
\* launch.
NextBreakpointFirst ==
    \/ \E cmd \in {"launch", "attach"} : CallLaunch(cmd)
    \/ LaunchAfterInitializeResponse
    \/ LaunchAfterInitialized
    \/ \E i \in 1..MaxBp : launchPc = "idle" /\ CallSetBreakpoint(i)
    \/ \E i \in 1..MaxBp : SetBreakpointAfterInitialized(i)
    \/ \E i \in 1..MaxBp : SetBreakpointAfterResponse(i)
    \/ SessionOnExit
    \/ \E s \in DOMAIN requests, ok \in BOOLEAN : AdapterRespond(s, ok)
    \/ AdapterInitialized
    \/ DispatchResponse
    \/ DispatchInitialized

SpecBreakpointFirst == InitSession /\ [][NextBreakpointFirst]_vars

\* A test that waits for stops of the debuggee and continues it.
NextStops ==
    \/ \E k \in 1..MaxStopWaiters : CallWaitForStopEvent(k)
    \/ CallContinue
    \/ \E reason \in {"initial", "breakpoint"} : AdapterStopped(reason)
    \/ \E s \in DOMAIN requests, ok \in BOOLEAN : AdapterRespond(s, ok)
    \/ DispatchStopped
    \/ DispatchResponse
    \/ CallTerminate
    \/ SessionOnExit

SpecStops == InitSession /\ [][NextStops]_vars

\* A test that issues requests while the adapter process is terminated.
NextTeardown ==
    \/ \E cmd \in {"launch", "attach"} : CallLaunch(cmd)
    \/ LaunchAfterInitializeResponse
    \/ LaunchAfterInitialized
    \/ AdapterInitialized
    \/ DispatchInitialized
    \/ CallContinue
    \/ \E s \in DOMAIN requests, ok \in BOOLEAN : AdapterRespond(s, ok)
    \/ DispatchResponse
    \/ Terminate
    \/ SessionOnExit

SpecTeardown == InitSession /\ [][NextTeardown]_vars

(***************************************************************************)
(* expandVariables, expandVariablesInObject, expandDbgConfig.              *)
(* A string is a sequence of characters.  "D" stands for the word          *)
(* 'dbgconfig', "E" for the word 'env', "a" "b" "c" "z" for names, "x" for *)
(* any other text; "$" "{" ":" "}" are themselves.                         *)
(***************************************************************************)
\* Index of the first "}" at or after position i (0 if there is none).
RECURSIVE ClosingBrace(_, _)
ClosingBrace(str, i) ==
    IF i > Len(str) THEN 0
    ELSE IF str[i] = "}" THEN i
    ELSE ClosingBrace(str, i + 1)

\* Index of the first ":" of a string (0 if there is none).
RECURSIVE FirstColon(_, _)
FirstColon(str, i) ==
    IF i > Len(str) THEN 0
    ELSE IF str[i] = ":" THEN i
    ELSE FirstColon(str, i + 1)

\* expandVarRegex = /\$\{(?:([^:}]+):)?([^}]+)\}/g matches at position i:
\* "${", a non-empty body without "}", and "}".
RegexMatchesAt(str, i) ==
    /\ i + 1 <= Len(str)
    /\ str[i] = "$" /\ str[i + 1] = "{"
    /\ ClosingBrace(str, i + 2) >= i + 3

\* The text between "${" and "}" of the match at i.
MatchBody(str, i) == SubSeq(str, i + 2, ClosingBrace(str, i + 2) - 1)

\* The optional group takes part when the body has a ":" with text on both
\* sides; the first group is then the text before the first ":".
HasType(body) ==
    LET c == FirstColon(body, 1) IN c >= 2 /\ c < Len(body)

\* The first group ('type'); <<>> stands for undefined.
MatchType(body) ==
    IF HasType(body) THEN SubSeq(body, 1, FirstColon(body, 1) - 1) ELSE <<>>

\* The second group ('key').
MatchKey(body) ==
    IF HasType(body) THEN SubSeq(body, FirstColon(body, 1) + 1, Len(body)) ELSE body

\* Values of a configuration: strings, the other scalars (null, undefined,
\* booleans, numbers), arrays of values and objects, whose items are
\* properties (a key and a value).  `str` is the text of a scalar.
StringValue(str) == [kind |-> "string", str |-> str, items |-> <<>>]

NumberValue(digits) == [kind |-> "number", str |-> digits, items |-> <<>>]

NullValue == [kind |-> "null", str |-> <<>>, items |-> <<>>]

UndefinedValue == [kind |-> "undefined", str |-> <<>>, items |-> <<>>]

BooleanValue(text) == [kind |-> "boolean", str |-> text, items |-> <<>>]

ArrayValue(items) == [kind |-> "array", str |-> <<>>, items |-> items]

ObjectValue(props) == [kind |-> "object", str |-> <<>>, items |-> props]

\* An isScalarValue that takes only numbers for scalars.
IsScalarValue_NumbersOnly(value) == value.kind = "number"

\* isScalarValue(value) for a value that is not a string
IsScalarValue(value) == value.kind \in {"null", "undefined", "boolean", "number"}

RECURSIVE ValueToString(_)
\* Array.prototype.toString: the texts of the items joined by ",", null and
\* undefined items giving the empty text.
RECURSIVE Join(_)
Join(items) ==
    IF items = <<>> THEN <<>>
    ELSE LET text == IF items[1].kind \in {"null", "undefined"} THEN <<>>
                     ELSE ValueToString(items[1])
         IN  IF Len(items) = 1 THEN text
             ELSE text \o <<",">> \o Join(Tail(items))

\* value.toString(); "x" stands for the text '[object Object]'.
ValueToString(value) ==
    IF value.kind = "array" THEN Join(value.items)
    ELSE IF value.kind = "object" THEN <<"x">>
    ELSE value.str

\* A property of the dbgconfig mapping.
Prop(key, value) == [key |-> key, value |-> value]

\* dbgconfig[key]
HasProp(cfg, key) == \E i \in 1..Len(cfg) : cfg[i].key = key

GetProp(cfg, key) == cfg[CHOOSE i \in 1..Len(cfg) : cfg[i].key = key].value

\* What an expander call gives: null, a replacement, or a thrown Error.
ExpandNull == [kind |-> "null", str |-> <<>>, error |-> "", key |-> <<>>]

Replacement(str) == [kind |-> "value", str |-> str, error |-> "", key |-> <<>>]

Throws(error, key) == [kind |-> "throw", str |-> <<>>, error |-> error, key |-> key]

\* An expander that leaves a self-reference as it is instead of throwing.
Expander_KeepsSelfReference(type, key, cfg, expanding) ==
    IF type = <<"D">>
    THEN IF key = expanding THEN ExpandNull
         ELSE IF ~HasProp(cfg, key) THEN Throws("undefined", key)
         ELSE Replacement(ValueToString(GetProp(cfg, key)))
    ELSE ExpandNull

\* An expander that answers a self-reference with the reference itself and
\* counts it as a replacement.
Expander_ReinsertsSelfReference(type, key, cfg, expanding) ==
    IF type = <<"D">>
    THEN IF key = expanding THEN Replacement(<<"$", "{", "D", ":">> \o key \o <<"}">>)
         ELSE IF ~HasProp(cfg, key) THEN Throws("undefined", key)
         ELSE Replacement(ValueToString(GetProp(cfg, key)))
    ELSE ExpandNull

\* The expander of the fixed-point loop.
Expander(type, key, cfg, expanding) ==
    IF type = <<"D">>
    THEN IF key = expanding THEN Throws("circular", key)
         ELSE IF ~HasProp(cfg, key) THEN Throws("undefined", key)
         ELSE Replacement(ValueToString(GetProp(cfg, key)))
    ELSE ExpandNull

\* A launch-configuration expander that leaves a reference to a name that is
\* not defined as it is instead of throwing.
LaunchExpander_KeepsUndefined(type, key, cfg) ==
    IF type = <<"D">>
    THEN IF ~HasProp(cfg, key) THEN ExpandNull
         ELSE Replacement(ValueToString(GetProp(cfg, key)))
    ELSE ExpandNull

\* The expander applied to the launch configuration.
LaunchExpander(type, key, cfg) ==
    IF type = <<"D">>
    THEN IF ~HasProp(cfg, key) THEN Throws("undefined", key)
         ELSE Replacement(ValueToString(GetProp(cfg, key)))
    ELSE ExpandNull

\* Marks a call of expandVariables by spawnDebugger; it stands where the
\* loop has the name of the property it expands.
HostEnvironment == <<"process.env">>

\* An expander of spawnDebugger that answers a name that is not set with the
\* empty text.
EnvExpander_EmptyForUnset(type, key, env) ==
    IF type = <<"E">>
    THEN IF HasProp(env, key) THEN Replacement(GetProp(env, key)) ELSE Replacement(<<>>)
    ELSE Throws("unknownType", type)

\* The expander of spawnDebugger: process.env[key] for the type 'env',
\* undefined (no replacement) when the name is not set.
EnvExpander(type, key, env) ==
    IF type = <<"E">>
    THEN IF HasProp(env, key) THEN Replacement(GetProp(env, key)) ELSE ExpandNull
    ELSE Throws("unknownType", type)

\* The expander in use: spawnDebugger's, the loop's while a property is
\* being expanded (expanding # <<>>), the launch configuration's otherwise.
CallExpander(type, key, cfg, expanding) ==
    IF expanding = HostEnvironment THEN EnvExpander(type, key, cfg)
    ELSE IF expanding # <<>> THEN Expander(type, key, cfg, expanding)
    ELSE LaunchExpander(type, key, cfg)

\* The result of an expansion: the new value, whether a reference was
\* replaced, and the Error thrown if any.
Expanded(value, replaced) ==
    [threw |-> FALSE, value |-> value, replaced |-> replaced, error |-> "", key |-> <<>>]

Thrown(error, key) ==
    [threw |-> TRUE, value |-> <<>>, replaced |-> FALSE, error |-> error, key |-> key]

\* str.replace(expandVarRegex, ...) from position i on: matches are found
\* left to right, a replacement is not scanned again.  `done` is the result
\* built so far, `replaced` whether an expander call gave a replacement.
RECURSIVE ReplaceFrom(_, _, _, _, _, _)
ReplaceFrom(str, i, cfg, expanding, done, replaced) ==
    IF i > Len(str) THEN Expanded(done, replaced)
    ELSE IF RegexMatchesAt(str, i)
    THEN LET j == ClosingBrace(str, i + 2)
             body == SubSeq(str, i + 2, j - 1)
             r == CallExpander(MatchType(body), MatchKey(body), cfg, expanding)
         IN  IF r.kind = "throw" THEN Thrown(r.error, r.key)
             ELSE ReplaceFrom(str, j + 1, cfg, expanding,
                              done \o (IF r.kind = "null" THEN SubSeq(str, i, j) ELSE r.str),
                              replaced \/ r.kind = "value")
    ELSE ReplaceFrom(str, i + 1, cfg, expanding, Append(done, str[i]), replaced)

\* expandVariables(str, expander)
ExpandVariables(str, cfg, expanding) == ReplaceFrom(str, 1, cfg, expanding, <<>>, FALSE)

\* The string result of expandVariables as a value of the configuration.
AsStringValue(r) == IF r.threw THEN r ELSE Expanded(StringValue(r.value), r.replaced)

RECURSIVE ExpandVariablesInObject(_, _, _)
\* obj.map(v => expandVariablesInObject(v, expander)) from the i-th item on
RECURSIVE ExpandItems(_, _, _, _, _, _)
ExpandItems(items, i, cfg, expanding, done, replaced) ==
    IF i > Len(items) THEN Expanded(ArrayValue(done), replaced)
    ELSE LET r == ExpandVariablesInObject(items[i], cfg, expanding)
         IN  IF r.threw THEN r
             ELSE ExpandItems(items, i + 1, cfg, expanding,
                              Append(done, r.value), replaced \/ r.replaced)

\* `for (let prop of Object.keys(obj)) obj[prop] = expandVariablesInObject(...)`
\* from the i-th property on
RECURSIVE ExpandObject(_, _, _, _, _)
ExpandObject(props, i, cfg, expanding, replaced) ==
    IF i > Len(props) THEN Expanded(ObjectValue(props), replaced)
    ELSE LET r == ExpandVariablesInObject(props[i].value, cfg, expanding)
         IN  IF r.threw THEN r
             ELSE ExpandObject([props EXCEPT ![i].value = r.value], i + 1, cfg, expanding,
                               replaced \/ r.replaced)

\* expandVariablesInObject(obj, expander)
ExpandVariablesInObject(obj, cfg, expanding) ==
    IF obj.kind = "string" THEN AsStringValue(ExpandVariables(obj.str, cfg, expanding))
    ELSE IF IsScalarValue(obj) THEN Expanded(obj, FALSE)
    ELSE IF obj.kind = "array" THEN ExpandItems(obj.items, 1, cfg, expanding, <<>>, FALSE)
    ELSE ExpandObject(obj.items, 1, cfg, expanding, FALSE)

\* One iteration of the do-while loop from its i-th property on:
\* `for (let prop of Object.keys(dbgconfig))`.
RECURSIVE ExpandProps(_, _, _)
ExpandProps(cfg, i, replaced) ==
    IF i > Len(cfg) THEN Expanded(cfg, replaced)
    ELSE LET r == ExpandVariablesInObject(cfg[i].value, cfg, cfg[i].key)
         IN  IF r.threw THEN r
             ELSE ExpandProps([cfg EXCEPT ![i].value = r.value], i + 1,
                              replaced \/ r.replaced)

\* The names, the dbgconfig mappings and the launch configurations a run is
\* started with.
Ref(name) == <<"$", "{", "D", ":", name, "}">>

\* The text of a reference without its "$".
Tail_Ref(name) == <<"{", "D", ":", name, "}">>

EnvRef == <<"$", "{", "E", ":", "a", "}">>

PropNames == <<"a", "b", "c">>

DbgValues ==
    {StringValue(<<"x">>), StringValue(<<"$">>),
     StringValue(Ref("a")), StringValue(Ref("b")), StringValue(Ref("c")),
     StringValue(Ref("z")),
     StringValue(<<"x">> \o Ref("b")),
     StringValue(Ref("b") \o <<"$">>),
     StringValue(Ref("c") \o <<"$">>),
     StringValue(Ref("a") \o Tail_Ref("c")),
     StringValue(Ref("b") \o Tail_Ref("a")),
     StringValue(EnvRef),
     NumberValue(<<"7">>),
     ArrayValue(<<StringValue(Ref("c")), StringValue(<<"x">>)>>)}

LaunchValues ==
    {StringValue(<<"x">>), StringValue(Ref("a")), StringValue(Ref("z")),
     StringValue(Ref("a") \o Ref("b")),
     StringValue(Ref("a") \o Tail_Ref("b")),
     StringValue(EnvRef),
     StringValue(<<"$", "{", "a", "}">>),
     ArrayValue(<<StringValue(Ref("c"))>>),
     ObjectValue(<<Prop(<<"a">>, StringValue(Ref("b"))),
                   Prop(<<"b">>, NullValue),
                   Prop(<<"c">>, ArrayValue(<<NumberValue(<<"7">>),
                                              StringValue(<<"x">> \o Ref("a")),
                                              BooleanValue(<<"x">>)>>))>>),
     ObjectValue(<<Prop(<<"b">>, ObjectValue(<<Prop(<<"c">>, StringValue(Ref("c"))),
                                               Prop(<<"a">>, UndefinedValue)>>)),
                   Prop(<<"a">>, ArrayValue(<<ArrayValue(<<StringValue(Ref("a"))>>),
                                              StringValue(<<"x">>)>>))>>)}

DbgConfigs ==
    {[i \in 1..Len(PropNames) |-> Prop(<<PropNames[i]>>, v[i])] :
        v \in [1..Len(PropNames) -> DbgValues]}

\* expandDbgConfig(debugConfig, dbgconfigConfig) is called.
InitExpand ==
    /\ InitProtocol /\ InitAdapterReady /\ CompareIdle /\ SpawnIdle /\ UtilIdle
    /\ dbgconfigConfig \in DbgConfigs
    /\ debugConfigArg \in LaunchValues
    /\ dbgconfig = dbgconfigConfig
    /\ debugConfig = debugConfigArg
    /\ converged = TRUE
    /\ passes = 0
    /\ expandPc = "fixpoint"
    /\ thrown = <<>>

\* One iteration of `do { ... } while (!converged)`.
FixpointPass ==
    /\ expandPc = "fixpoint" /\ passes < MaxPasses
    /\ passes' = passes + 1
    /\ LET r == ExpandProps(dbgconfig, 1, FALSE)
       IN  IF r.threw
           THEN /\ expandPc' = "threw"
                /\ thrown' = [error |-> r.error, key |-> r.key]
                /\ UNCHANGED <<dbgconfig, converged>>
           ELSE /\ dbgconfig' = r.value
                /\ converged' = ~r.replaced
                /\ expandPc' = IF r.replaced THEN "fixpoint" ELSE "launchConfig"
                /\ UNCHANGED thrown
    /\ UNCHANGED <<dbgconfigConfig, debugConfigArg, debugConfig, cmpVars, startVars, spawnVars, utilVars,
                   handshakeVars, protoVars>>

\* `debugConfig = expandVariablesInObject(debugConfig, ...); return debugConfig`
ExpandLaunchConfig ==
    /\ expandPc = "launchConfig"
    /\ LET r == ExpandVariablesInObject(debugConfig, dbgconfig, <<>>)
       IN  IF r.threw
           THEN /\ expandPc' = "threw"
                /\ thrown' = [error |-> r.error, key |-> r.key]
                /\ UNCHANGED debugConfig
           ELSE /\ debugConfig' = r.value
                /\ expandPc' = "returned"
                /\ UNCHANGED thrown
    /\ UNCHANGED <<dbgconfigConfig, debugConfigArg, dbgconfig, converged, passes, cmpVars,
                   startVars, spawnVars, utilVars, handshakeVars, protoVars>>

NextExpand == FixpointPass \/ ExpandLaunchConfig

SpecExpand == InitExpand /\ [][NextExpand]_vars

(***************************************************************************)
(* spawnDebugger.  "P" stands for the name PATH, "u" for the text          *)
(* '/usr/bin:'.                                                            *)
(***************************************************************************)
\* env[key] = value
SetProp(env, key, value) ==
    IF HasProp(env, key)
    THEN [i \in 1..Len(env) |-> IF env[i].key = key THEN Prop(key, value) ELSE env[i]]
    ELSE Append(env, Prop(key, value))

\* `for (let key in adapterEnv) env[key] = util.expandVariables(...)` from
\* the i-th key on; every token is expanded against process.env.
RECURSIVE ExpandEnv(_, _, _, _)
ExpandEnv(adapter, i, host, env) ==
    IF i > Len(adapter) THEN Expanded(env, FALSE)
    ELSE LET r == ExpandVariables(adapter[i].value, host, HostEnvironment)
         IN  IF r.threw THEN r
             ELSE ExpandEnv(adapter, i + 1, host, SetProp(env, adapter[i].key, r.value))

\* options.env['PATH'] = '/usr/bin:' + process.env['PATH'] on macOS
PlatformEnv(env, host, os) ==
    IF os = "darwin" THEN SetProp(env, <<"P">>, <<"u">> \o GetProp(host, <<"P">>))
    ELSE env

\* The host environments, the adapterEnv settings and the platforms a run is
\* started with.
EnvToken(name) == <<"$", "{", "E", ":", name, "}">>

HostEnvs ==
    {<<Prop(<<"P">>, <<"x">>)>> \o a :
        a \in {<<>>, <<Prop(<<"a">>, <<>>)>>, <<Prop(<<"a">>, <<"x">>)>>,
               <<Prop(<<"a">>, <<"$">>)>>}}

AdapterEnvValues ==
    {<<"x">>, EnvToken("a"), EnvToken("b"), EnvToken("P") \o <<"x">>,
     <<"x">> \o EnvToken("a") \o EnvToken("b"),
     EnvToken("a") \o <<"{", "E", ":", "a", "}">>,
     Ref("a"), <<"$", "{", "a", "}">>}

AdapterEnvKeys == {<<"a">>, <<"c">>, <<"P">>}

AdapterEnvs ==
    {<<>>}
    \cup {<<Prop(k, v)>> : k \in AdapterEnvKeys, v \in AdapterEnvValues}
    \cup {<<Prop(k1, v1), Prop(k2, v2)>> :
             k1 \in {<<"a">>, <<"P">>}, k2 \in {<<"c">>},
             v1 \in AdapterEnvValues, v2 \in AdapterEnvValues}

\* spawnDebugger(args, adapterPath, adapterEnv) is called.
InitSpawn ==
    /\ InitProtocol /\ CompareIdle /\ ExpandIdle /\ NotSpawned /\ UtilIdle
    /\ starter = "startDebugAdapter"
    /\ debugServer = <<>>
    /\ sessionPort = 0
    /\ connectPort = 0
    /\ processEnv \in HostEnvs
    /\ platform \in {"linux", "darwin"}
    /\ adapterEnv \in AdapterEnvs
    /\ spawnPc = "called"
    /\ spawnEnv = <<>>
    /\ spawnThrown = <<>>

\* The call runs to cp.spawn or to the Error its expander throws.
SpawnDebugger ==
    /\ spawnPc = "called"
    /\ LET r == ExpandEnv(adapterEnv, 1, processEnv, processEnv)
       IN  IF r.threw
           THEN /\ spawnPc' = "threw"
                /\ spawnThrown' = [error |-> r.error, key |-> r.key]
                /\ UNCHANGED spawnEnv
           ELSE /\ spawnPc' = "spawned"
                /\ spawnEnv' = PlatformEnv(r.value, processEnv, platform)
                /\ UNCHANGED spawnThrown
    /\ UNCHANGED <<processEnv, platform, adapterEnv, cmpVars, cfgVars, startVars, utilVars,
                   handshakeVars, protoVars>>

NextSpawn == SpawnDebugger

SpecSpawn == InitSpawn /\ [][NextSpawn]_vars

(***************************************************************************)
(* DebugTestSession.compareVariables.                                      *)
(***************************************************************************)
\* The result of parseFloat: a number or NaN.
Num(n) == [nan |-> FALSE, n |-> n]

NaN == [nan |-> TRUE, n |-> 0]

\* A parse that recognises no number.
ParseFloat_NaN(str) == NaN

\* A parse that takes only the decimal digits of an integer for a number.
ParseFloat_Textual(str) ==
    CASE str = "1"   -> Num(1)
      [] str = "2"   -> Num(2)
      [] OTHER       -> NaN

\* parseFloat(variable.value) on the renderings the adapter produces: the
\* longest numeric prefix is converted, a string without one gives NaN.
ParseFloat(str) ==
    CASE str = "1"   -> Num(1)
      [] str = "1.0" -> Num(1)
      [] str = "1x"  -> Num(1)
      [] str = "2"   -> Num(2)
      [] OTHER       -> NaN

\* assert.equal(numValue, expectedValue): ==, which NaN never satisfies.
NumEquals(numValue, expectedValue) == ~numValue.nan /\ numValue.n = expectedValue

\* Expected values: null, a string, a number, or an object of expected values.
ExpNull == [kind |-> "null", str |-> "", num |-> 0, fields |-> <<>>]

ExpStr(str) == [kind |-> "string", str |-> str, num |-> 0, fields |-> <<>>]

ExpNum(n) == [kind |-> "number", str |-> "", num |-> n, fields |-> <<>>]

ExpObject(fields) == [kind |-> "object", str |-> "", num |-> 0, fields |-> fields]

Entry(key, val) == [key |-> key, val |-> val]

\* A variable of a 'variables' response.
Variable(name, value, ref) == [name |-> name, value |-> value, variablesReference |-> ref]

Undefined == [name |-> "", value |-> "", variablesReference |-> -1]

\* vars[key] after `for (let v of response.body.variables) vars[v.name] = v`:
\* the last variable of that name.
VarsLookup(nodes, key) ==
    LET at == {i \in 1..Len(nodes) : nodes[i].name = key}
    IN  IF at = {} THEN Undefined
        ELSE nodes[CHOOSE i \in at : \A j \in at : j <= i]

\* expectedValue['$'] of an object expected value.
SummaryOf(fields) ==
    LET at == {i \in 1..Len(fields) : fields[i].key = "$"}
    IN  IF at = {} THEN ExpNull
        ELSE fields[CHOOSE i \in at : TRUE].val

\* The 'variables' response of the adapter for a reference: the children it
\* reports, none for a reference it does not know.
VariablesResponse(varRef) ==
    IF varRef \in DOMAIN variables THEN variables[varRef] ELSE <<>>

\* What a call has done so far: `visited` lists the key paths it looked up,
\* `requested` the 'variables' requests it sent, each with the reference and
\* the key path of the node expanded.
NoLog == [visited |-> <<>>, requested |-> <<>>]

Visit(log, keyPath) == [log EXCEPT !.visited = Append(@, keyPath)]

\* A request that is sent twice.
RequestVariables_Twice(log, varRef, prefix) ==
    [log EXCEPT !.requested =
        @ \o <<[ref |-> varRef, path |-> prefix], [ref |-> varRef, path |-> prefix]>>]

RequestVariables(log, varRef, prefix) ==
    [log EXCEPT !.requested = Append(@, [ref |-> varRef, path |-> prefix])]

\* The outcome of a call: it returns, or throws the AssertionError of the
\* first assertion that fails.
Passed(log) ==
    [status |-> "passed", errors |-> <<>>, visited |-> log.visited,
     requested |-> log.requested]

Failed(what, path, log) ==
    [status |-> "failed", errors |-> <<[what |-> what, path |-> path]>>,
     visited |-> log.visited, requested |-> log.requested]

\* The log a call that returned hands on.
LogOf(result) == [visited |-> result.visited, requested |-> result.requested]

\* `if (key == '$') continue`
SkipsKey(key) == key = "$"

\* A summary that is not compared.
SummaryMismatch_Never(variable, summary) == FALSE

\* `summary != undefined` and assert.equal(variable.value, summary) fails
SummaryMismatch(variable, summary) ==
    summary.kind # "null" /\ variable.value # summary.str

\* An entry assertion that accepts reference zero.
IsZero_Never(varRef) == FALSE

\* A comparison that takes no expected value for null.
PresenceOnly_Never(expectedValue) == FALSE

\* `expectedValue == null`: just check that the value exists
PresenceOnly(expectedValue) == expectedValue.kind = "null"

\* assert.notEqual(varRef, 0) fails
IsZero(varRef) == varRef = 0

RECURSIVE CompareVariables(_, _, _, _)
RECURSIVE CompareKeys(_, _, _, _, _)
\* The loop `for (let key of Object.keys(expected))` from its i-th key on.
CompareKeys(nodes, exp, prefix, i, log) ==
    IF i > Len(exp) THEN Passed(log)
    ELSE IF SkipsKey(exp[i].key) THEN CompareKeys(nodes, exp, prefix, i + 1, log)
    ELSE
      LET keyPath == Append(prefix, exp[i].key)
          expectedValue == exp[i].val
          variable == VarsLookup(nodes, exp[i].key)
          seen == Visit(log, keyPath)
      IN  IF variable = Undefined THEN Failed("notFound", keyPath, seen)
          ELSE IF PresenceOnly(expectedValue)
               THEN CompareKeys(nodes, exp, prefix, i + 1, seen)
          ELSE IF expectedValue.kind = "string"
               THEN IF variable.value = expectedValue.str
                    THEN CompareKeys(nodes, exp, prefix, i + 1, seen)
                    ELSE Failed("value", keyPath, seen)
          ELSE IF expectedValue.kind = "number"
               THEN IF NumEquals(ParseFloat(variable.value), expectedValue.num)
                    THEN CompareKeys(nodes, exp, prefix, i + 1, seen)
                    ELSE Failed("value", keyPath, seen)
          ELSE IF SummaryMismatch(variable, SummaryOf(expectedValue.fields))
               THEN Failed("summary", keyPath, seen)
               ELSE LET sub == CompareVariables(variable.variablesReference,
                                                expectedValue.fields, keyPath, seen)
                    IN  IF sub.status = "failed" THEN sub
                        ELSE CompareKeys(nodes, exp, prefix, i + 1, LogOf(sub))

\* compareVariables(varRef, expected, prefix)
CompareVariables(varRef, exp, prefix, log) ==
    IF IsZero(varRef) THEN Failed("zeroReference", prefix, log)
    ELSE CompareKeys(VariablesResponse(varRef), exp, prefix, 1,
                     RequestVariables(log, varRef, prefix))

\* The expected trees and the adapter's variables a test is run with.
Values == {"1", "1.0", "1x", "x", "y", "s"}

ExpLeaf == {ExpNull, ExpStr("x"), ExpStr("1"), ExpNum(1), ExpNum(2)}

ExpNested ==
    {ExpObject(<<Entry("c", v)>>) : v \in {ExpStr("x"), ExpNum(1)}}
    \cup {ExpObject(<<Entry("$", ExpStr("s")), Entry("c", v)>>) : v \in {ExpStr("x"), ExpNum(1)}}

ExpValues == ExpLeaf \cup ExpNested

ExpectedTrees ==
    {<<Entry("a", va), Entry("b", vb)>> : va \in ExpValues, vb \in ExpValues}
    \cup {<<Entry("$", ExpStr("s")), Entry("a", va), Entry("b", vb)>> :
             va \in ExpLeaf, vb \in ExpLeaf}

\* The variables of one name the adapter may report: none, or one.
NodesNamed(name) ==
    {<<>>} \cup {<<Variable(name, v, r)>> : v \in Values, r \in {0, 2}}

ChildNodes == {<<>>} \cup {<<Variable("c", v, 0)>> : v \in {"x", "1"}}

VariableTables ==
    {<<na \o nb, nc>> : na \in NodesNamed("a"), nb \in NodesNamed("b"), nc \in ChildNodes}

\* A test calls compareVariables(varRefArg, expected) on a stopped debuggee.
InitCompare ==
    /\ InitProtocol /\ InitAdapterReady /\ ExpandIdle /\ SpawnIdle /\ UtilIdle
    /\ expected \in ExpectedTrees
    /\ variables \in VariableTables
    /\ varRefArg \in {0, 1}
    /\ cmpPc = "called"
    /\ cmpResult = <<>>

\* The call runs to its return or to its first failed assertion.
CompareVariablesCall ==
    /\ cmpPc = "called"
    /\ cmpResult' = CompareVariables(varRefArg, expected, <<>>, NoLog)
    /\ cmpPc' = "done"
    /\ UNCHANGED <<expected, variables, varRefArg, cfgVars, startVars, spawnVars, utilVars, handshakeVars,
                   protoVars>>

NextCompare == CompareVariablesCall

SpecCompare == InitCompare /\ [][NextCompare]_vars

(***************************************************************************)
(* compareVariables against an adapter that reports more than is expected. *)
(***************************************************************************)
\* Expected objects that name one child, or two children that are containers
\* or are only required to exist.
SubsetTrees ==
    {<<Entry("a", va)>> : va \in ExpValues}
    \cup {<<Entry("a", va), Entry("b", vb)>> :
             va \in ExpNested \cup {ExpNull}, vb \in ExpNested \cup {ExpNull}}

\* The adapter also reports a variable d, which no expected object names.
ExtraNodes == {<<>>, <<Variable("d", "x", 0)>>}

ExtraTables ==
    {<<t[1] \o top, t[2] \o child>> :
        t \in VariableTables, top \in ExtraNodes, child \in ExtraNodes}

\* The keys of an expected object and of the objects nested in it.
RECURSIVE ExpectedNames(_)
ExpectedNames(exp) ==
    UNION {{exp[i].key} \cup (IF exp[i].val.kind = "object"
                               THEN ExpectedNames(exp[i].val.fields) ELSE {})
           : i \in 1..Len(exp)}

\* The variables the adapter reports, without those no expected key names.
WithoutExtras(tables, exp) ==
    [r \in DOMAIN tables |->
        SelectSeq(tables[r], LAMBDA v : v.name \in ExpectedNames(exp))]

InitSubset ==
    /\ InitProtocol /\ InitAdapterReady /\ ExpandIdle /\ SpawnIdle /\ UtilIdle
    /\ expected \in SubsetTrees
    /\ variables \in ExtraTables
    /\ varRefArg \in {0, 1}
    /\ cmpPc = "called"
    /\ cmpResult = <<>>

\* The test makes the same call on a debuggee whose adapter reports only the
\* variables the expected object names.
CompareWithoutExtras ==
    /\ cmpPc = "done"
    /\ UNCHANGED <<expected, varRefArg>>
    /\ variables' = WithoutExtras(variables, expected)
    /\ cmpResult' = CompareVariables(varRefArg, expected, <<>>, NoLog)'
    /\ cmpPc' = "again"
    /\ UNCHANGED <<cfgVars, startVars, spawnVars, utilVars, handshakeVars, protoVars>>

NextSubset == CompareVariablesCall \/ CompareWithoutExtras

SpecSubset == InitSubset /\ [][NextSubset]_vars

(***************************************************************************)
(* withTimeout(timeoutMillis, promise) of the tests.                       *)
(***************************************************************************)
\* Number of concurrent withTimeout calls of a test.
MaxWrapped == 2

\* No session is open and no adapter has been spawned.
NoSession ==
    /\ InitProtocol /\ NotSpawned
    /\ starter = "startDebugAdapter"
    /\ debugServer = <<>>
    /\ sessionPort = 0
    /\ connectPort = 0

\* A promise that nothing wraps yet.  promise: the state of the wrapped
\* promise; reaction: the callback given to promise.then; timer: the timer
\* of the call; result: the state of the promise withTimeout returned;
\* unhandled: the promise returned by promise.then was rejected and has no
\* handler.
NotWrapped(state) ==
    [call |-> "idle", promise |-> state, reaction |-> "none", timer |-> "none",
     result |-> "pending", unhandled |-> FALSE]

\* resolve()/reject() of the returned promise: only the first call settles it.
SettleResult(cur, new) == IF cur = "pending" THEN new ELSE cur

\* A then() with a second callback that passes the rejection on:
\* promise.then(..., reject).
ThenFulfilled_ForwardsRejection(w, state) ==
    [w EXCEPT !.reaction = IF state = "fulfilled" THEN "queued" ELSE @,
              !.result = IF state = "rejected" THEN SettleResult(@, "error") ELSE @,
              !.timer = IF state = "rejected" /\ @ = "armed" THEN "cleared" ELSE @]

\* promise.then(onFulfilled) on a promise in the given state: the callback
\* is queued for a fulfilled promise; a rejection passes to the promise that
\* then() returned, which nothing handles.
ThenFulfilled(w, state) ==
    [w EXCEPT !.reaction = IF state = "fulfilled" THEN "queued" ELSE @,
              !.unhandled = (state = "rejected")]

\* A callback of promise.then is queued: it runs before any timer.
ReactionQueued == \E i \in DOMAIN wrapped : wrapped[i].reaction = "queued"

InitTimeout ==
    /\ NoSession /\ CompareIdle /\ ExpandIdle /\ SpawnIdle
    /\ zip = <<>>
    /\ wrapped \in [1..MaxWrapped -> {NotWrapped(state) :
                                       state \in {"pending", "fulfilled", "rejected"}}]

\* withTimeout(timeoutMillis, promise): sets the timer and calls promise.then.
CallWithTimeout(i) ==
    /\ wrapped[i].call = "idle"
    /\ wrapped' = [wrapped EXCEPT ![i] =
                      ThenFulfilled([@ EXCEPT !.call = "called", !.timer = "armed"],
                                    wrapped[i].promise)]
    /\ UNCHANGED <<zip, cmpVars, cfgVars, startVars, spawnVars, handshakeVars, protoVars>>

\* The wrapped promise is fulfilled or rejected.
WrappedSettles(i, state) ==
    /\ wrapped[i].promise = "pending"
    /\ wrapped' = [wrapped EXCEPT ![i] =
                      IF @.call = "called"
                      THEN ThenFulfilled([@ EXCEPT !.promise = state], state)
                      ELSE [@ EXCEPT !.promise = state]]
    /\ UNCHANGED <<zip, cmpVars, cfgVars, startVars, spawnVars, handshakeVars, protoVars>>

\* result => { clearTimeout(timer); resolve(result); }
ThenCallback(i) ==
    /\ wrapped[i].reaction = "queued"
    /\ wrapped' = [wrapped EXCEPT ![i] =
                      [@ EXCEPT !.reaction = "ran",
                                !.timer = IF @ = "armed" THEN "cleared" ELSE @,
                                !.result = SettleResult(@, "result")]]
    /\ UNCHANGED <<zip, cmpVars, cfgVars, startVars, spawnVars, handshakeVars, protoVars>>

\* The timer callback: reject(error) with error.code = 'Timeout'.
TimeoutCallback(i) ==
    /\ ~ReactionQueued
    /\ wrapped[i].timer = "armed"
    /\ wrapped' = [wrapped EXCEPT ![i] =
                      [@ EXCEPT !.timer = "fired",
                                !.result = SettleResult(@, "Timeout")]]
    /\ UNCHANGED <<zip, cmpVars, cfgVars, startVars, spawnVars, handshakeVars, protoVars>>

NextTimeout ==
    \/ \E i \in 1..MaxWrapped : CallWithTimeout(i)
    \/ \E i \in 1..MaxWrapped, state \in {"fulfilled", "rejected"} : WrappedSettles(i, state)
    \/ \E i \in 1..MaxWrapped : ThenCallback(i)
    \/ \E i \in 1..MaxWrapped : TimeoutCallback(i)

SpecTimeout == InitTimeout /\ [][NextTimeout]_vars

(***************************************************************************)
(* extractZip(zipPath, callback) of the installer.                         *)
(***************************************************************************)
\* Largest number of entries of an archive.
MaxEntries == 2

\* What happens to an entry: the callback returns null for it ("skip"); it
\* is extracted ("file"); or one step of its extraction fails: the creation
\* of its directory ("mkdirFails"), zipfile.openReadStream ("openFails"), the
\* read stream ("streamFails"), fs.chmod ("chmodFails"); or the archive
\* cannot be read at it and the zipfile emits 'error' ("corrupt").
EntryKinds ==
    {"skip", "file", "mkdirFails", "openFails", "streamFails", "chmodFails", "corrupt"}

RECURSIVE ArchivesUpTo(_)
ArchivesUpTo(n) ==
    IF n = 0 THEN {<<>>}
    ELSE LET shorter == ArchivesUpTo(n - 1)
         IN  shorter \cup {Append(a, k) : a \in shorter, k \in EntryKinds}

\* The rejection extractZip's promise is rejected with: the step that failed
\* and the entry it failed for (0 for the archive).
ZipError(step, entry) == [kind |-> "rejected", step |-> step, entry |-> entry]

ZipPending == [kind |-> "pending", step |-> "", entry |-> 0]

ZipResolved == [kind |-> "resolved", step |-> "", entry |-> 0]

\* resolve()/reject() of the promise extractZip returns.
ZipSettle(cur, new) == IF cur.kind = "pending" THEN new ELSE cur

\* zip.open(zipPath, { lazyEntries: true }, ...) has been called.
\* requested: calls of zipfile.readEntry(); emitted: 'entry' and 'error'
\* events of the zipfile; st[i]: how far the handling of entry i has come;
\* file[i]: the write stream of entry i; mode[i]: fs.chmod has set its mode.
ZipCalled(entries, openFails) ==
    [entries |-> entries, openFails |-> openFails, phase |-> "opening",
     requested |-> 0, emitted |-> 0, ended |-> FALSE, closed |-> FALSE,
     st |-> [i \in 1..Len(entries) |-> "unread"],
     file |-> [i \in 1..Len(entries) |-> "none"],
     mode |-> [i \in 1..Len(entries) |-> FALSE],
     result |-> ZipPending, crashed |-> FALSE]

InitZip ==
    /\ NoSession /\ CompareIdle /\ ExpandIdle /\ SpawnIdle
    /\ wrapped = <<>>
    /\ zip \in {ZipCalled(entries, openFails) :
                  entries \in ArchivesUpTo(MaxEntries), openFails \in BOOLEAN}

\* Nothing but zip changes.
OnlyZip == UNCHANGED <<wrapped, cmpVars, cfgVars, startVars, spawnVars, handshakeVars, protoVars>>

\* The handlers of the zipfile run: it was opened and the process is alive.
ZipRunning == zip.phase = "open" /\ ~zip.crashed

\* The callback of zip.open.
ZipOpenCallback ==
    /\ zip.phase = "opening"
    /\ zip' = IF zip.openFails
              THEN [zip EXCEPT !.phase = "failed",
                               !.result = ZipSettle(@, ZipError("open", 0))]
              ELSE [zip EXCEPT !.phase = "open", !.requested = 1]
    /\ OnlyZip

\* A readEntry() is answered with the next entry: the 'entry' handler, or
\* the zipfile's 'error' handler for an entry that cannot be read.
EmitEntry ==
    /\ ZipRunning /\ ~zip.ended
    /\ zip.requested > zip.emitted /\ zip.emitted < Len(zip.entries)
    /\ LET i == zip.emitted + 1
           kind == zip.entries[i]
       IN  zip' = IF kind = "corrupt"
                  THEN [zip EXCEPT !.emitted = i, !.st[i] = "failed",
                                   !.result = ZipSettle(@, ZipError("zipfile", i))]
                  ELSE IF kind = "skip"
                  THEN [zip EXCEPT !.emitted = i, !.st[i] = "skipped",
                                   !.requested = @ + 1]
                  ELSE [zip EXCEPT !.emitted = i, !.st[i] = "ensuring"]
    /\ OnlyZip

\* A readEntry() after the last entry is answered with 'end':
\* zipfile.close() and resolve().
EmitEnd ==
    /\ ZipRunning /\ ~zip.ended
    /\ zip.requested > zip.emitted /\ zip.emitted = Len(zip.entries)
    /\ zip' = [zip EXCEPT !.ended = TRUE, !.closed = TRUE,
                          !.result = ZipSettle(@, ZipResolved)]
    /\ OnlyZip

\* A chain in which a rejection of ensureDirectory skips the callback that
\* opens the read stream: ensureDirectory(...).then(...).catch(...).
ThenAfterCatchRuns_OnlyFulfilled(rejected) == ~rejected

\* ensureDirectory(...).catch(err => reject(err)).then(() => ...): the
\* promise catch() returns is fulfilled whether ensureDirectory was fulfilled
\* or was rejected and caught, so the callback of then() runs in both cases.
ThenAfterCatchRuns(rejected) == TRUE

\* ensureDirectory(path.dirname(destPath)) settles for entry i.
EnsureDirectorySettles(i) ==
    /\ ZipRunning /\ zip.st[i] = "ensuring"
    /\ LET rejected == zip.entries[i] = "mkdirFails"
       IN  zip' = [zip EXCEPT !.result = IF rejected THEN ZipSettle(@, ZipError("mkdir", i))
                                         ELSE @,
                              !.st[i] = IF ThenAfterCatchRuns(rejected) THEN "opening"
                                        ELSE "failed"]
    /\ OnlyZip

\* The callback of zipfile.openReadStream(entry, ...): reject(err), or
\* fs.createWriteStream(destPath) and stream.pipe(file).
OpenReadStreamCallback(i) ==
    /\ ZipRunning /\ zip.st[i] = "opening"
    /\ zip' = IF zip.entries[i] = "openFails"
              THEN [zip EXCEPT !.st[i] = "failed",
                               !.result = ZipSettle(@, ZipError("openReadStream", i))]
              ELSE [zip EXCEPT !.st[i] = "piping", !.file[i] = "writing"]
    /\ OnlyZip

\* stream.on('error', reject)
StreamError(i) ==
    /\ ZipRunning /\ zip.st[i] = "piping" /\ zip.entries[i] = "streamFails"
    /\ zip' = [zip EXCEPT !.st[i] = "failed",
                          !.result = ZipSettle(@, ZipError("stream", i))]
    /\ OnlyZip

\* The read stream emits 'end': pipe() calls file.end(), and the handler of
\* extractZip calls fs.chmod.  The data has been handed to the write stream;
\* what it has not written yet is in its buffer.
StreamEnd(i) ==
    /\ ZipRunning /\ zip.st[i] = "piping" /\ zip.entries[i] # "streamFails"
    /\ zip' = [zip EXCEPT !.st[i] = "chmod",
                          !.file[i] = IF @ = "writing" THEN "ending" ELSE @]
    /\ OnlyZip

\* The write stream has written all of its data ('finish').
FileFinish(i) ==
    /\ ZipRunning /\ zip.file[i] = "ending" /\ zip.entries[i] # "mkdirFails"
    /\ zip' = [zip EXCEPT !.file[i] = "finished"]
    /\ OnlyZip

\* The write stream cannot open its file, the directory not having been
\* created: it emits 'error', for which no handler is registered.
FileOpenError(i) ==
    /\ ZipRunning /\ zip.file[i] \in {"writing", "ending"}
    /\ zip.entries[i] = "mkdirFails"
    /\ zip' = [zip EXCEPT !.file[i] = "error", !.crashed = TRUE]
    /\ OnlyZip

\* The callback of fs.chmod: zipfile.readEntry(), whatever err is.
ChmodCallback(i) ==
    /\ ZipRunning /\ zip.st[i] = "chmod"
    /\ zip' = [zip EXCEPT !.st[i] = "done",
                          !.mode[i] = zip.entries[i] \notin {"chmodFails", "mkdirFails"},
                          !.requested = @ + 1]
    /\ OnlyZip

NextZip ==
    \/ ZipOpenCallback
    \/ EmitEntry
    \/ EmitEnd
    \/ \E i \in 1..MaxEntries : i <= Len(zip.entries) /\ EnsureDirectorySettles(i)
    \/ \E i \in 1..MaxEntries : i <= Len(zip.entries) /\ OpenReadStreamCallback(i)
    \/ \E i \in 1..MaxEntries : i <= Len(zip.entries) /\ StreamError(i)
    \/ \E i \in 1..MaxEntries : i <= Len(zip.entries) /\ StreamEnd(i)
    \/ \E i \in 1..MaxEntries : i <= Len(zip.entries) /\ FileFinish(i)
    \/ \E i \in 1..MaxEntries : i <= Len(zip.entries) /\ FileOpenError(i)
    \/ \E i \in 1..MaxEntries : i <= Len(zip.entries) /\ ChmodCallback(i)

SpecZip == InitZip /\ [][NextZip]_vars

(***************************************************************************)
(* Properties of the handshake (checked under SpecHandshake).              *)
(***************************************************************************)
\* C1: waitForPattern settles its caller at most once.  A settled outcome is
\* never changed by a later event, and while the outcome is pending each of
\* the spawn error, the timer expiry and the process exit decides it; a
\* pending outcome is resolved by a 'data' event only.
C1_SettlesOnce ==
    [][ /\ outcome.kind # "pending" => outcome' = outcome
        /\ (outcome.kind = "pending" /\ ~errorNotified /\ errorNotified')
              => (outcome'.kind = "rejected" /\ outcome'.code = "SpawnError")
        /\ (outcome.kind = "pending" /\ timer = "armed" /\ timer' = "fired")
              => (outcome'.kind = "rejected" /\ outcome'.code = "Timeout")
        /\ (outcome.kind = "pending" /\ ~exitNotified /\ exitNotified')
              => (outcome'.kind = "rejected" /\ outcome'.code = "Handshake")
        /\ (outcome.kind = "pending" /\ outcome'.kind = "resolved")
              => stdoutBytes' # stdoutBytes
      ]_vars

\* The spawn error decided; the exit, the timer and further output came later.
C1_Witness ==
    /\ outcome.kind = "rejected" /\ outcome.code = "SpawnError"
    /\ exitNotified /\ timer = "fired" /\ stdoutBytes # <<>>

\* C5: AdapterProcess.isAlive is true from construction, becomes false on the
\* process 'exit' notification and on nothing else, and once false is never
\* true again.
C5_AliveUntilExit ==
    [][ /\ (adapterProc = "none" /\ adapterProc' = "constructed") => isAlive'
        /\ (adapterProc = "constructed" /\ isAlive /\ ~isAlive')
              => (~exitNotified /\ exitNotified')
        /\ (adapterProc = "constructed" /\ ~exitNotified /\ exitNotified')
              => ~isAlive'
        /\ (adapterProc = "constructed" /\ ~isAlive) => ~isAlive'
      ]_vars

\* terminate() was called on a live process, which has exited since.
C5_Witness == adapterProc = "constructed" /\ ~isAlive /\ killedByTerminate

\* C23: terminate() is idempotent and safe on a dead process.  A call of
\* terminate() changes nothing but the record of the signals sent, and that
\* only while the process is alive: once the exit has been observed
\* (isAlive is false) the call sends no kill signal and changes no state.
C23_TerminateIdempotent ==
    [][ (terminateCalls' # terminateCalls) =>
           /\ adapterProc = "constructed"
           /\ UNCHANGED <<stdoutBytes, stderrBytes, lateData, exitNotified, errorNotified, waitVars,
                          adapterVars, protoVars, toolVars>>
           /\ ~isAlive => UNCHANGED killedByTerminate
           /\ isAlive => killedByTerminate'
      ]_vars

\* terminate() was called twice after the exit of a process that no
\* terminate() had signalled.
C23_Witness ==
    /\ adapterProc = "constructed" /\ ~isAlive /\ exitNotified
    /\ terminateCalls = MaxTerminates /\ ~killedByTerminate

\* C7: if the timer expires while no match, exit or spawn error has been
\* observed, the caller is rejected with code 'Timeout' and the output
\* accumulated so far.
C7_TimeoutRejects ==
    [][ (/\ timer = "armed" /\ timer' = "fired"
         /\ outcome.kind # "resolved" /\ ~exitNotified /\ ~errorNotified)
           => outcome' = Rejected("Timeout", processOutput)
      ]_vars

\* A timeout after some output that did not match.
C7_Witness ==
    /\ outcome.kind = "rejected" /\ outcome.code = "Timeout"
    /\ outcome.stdout # <<>>

\* C8: if 'exit' is delivered while the wait is pending, the caller is
\* rejected with code 'Handshake' and the output accumulated up to the exit.
C8_PrematureExitRejects ==
    [][ (outcome.kind = "pending" /\ ~exitNotified /\ exitNotified')
           => outcome' = Rejected("Handshake", processOutput)
      ]_vars

\* A premature exit after some output that did not match.
C8_Witness ==
    /\ outcome.kind = "rejected" /\ outcome.code = "Handshake"
    /\ outcome.stdout # <<>>

\* C9: waitForPattern has killed the process exactly when the outcome is the
\* timeout: a timeout outcome comes with a kill, and when a match, an exit or
\* a spawn error decided first no timer expiry kills the process.
C9_KillOnlyOnTimeout ==
    killedByTimer <=> (outcome.kind = "rejected" /\ outcome.code = "Timeout")

\* The timer expired after a spawn error had decided, and killed nothing.
C9_Witness ==
    /\ timer = "fired" /\ ~killedByTimer
    /\ outcome.kind = "rejected" /\ outcome.code = "SpawnError"

\* C10: the result does not depend on how the output is split into chunks:
\* while the wait is pending the whole output received so far holds no match,
\* and a resolved wait carries the match of the whole output.
C10_SplitIndependent ==
    LET whole == PatternExec(Utf8ToString(stdoutBytes))
    IN  /\ outcome.kind = "pending" => ~whole.found
        /\ outcome.kind = "resolved" => outcome.match = whole

\* What holds of C10's statement: it holds of every output in which no chunk
\* boundary has fallen inside a multi-byte character (here: ASCII output).
Ascii(bytes) == \A i \in 1..Len(bytes) : bytes[i] \notin {"C2", "A0"}

SplitIndependentAscii == Ascii(stdoutBytes) => C10_SplitIndependent

\* The bytes the 'data' event of this step delivered.
NewBytes == SubSeq(stdoutBytes', Len(stdoutBytes) + 1, Len(stdoutBytes'))

\* C11: the first match wins.  The wait is resolved by the first chunk that
\* completes a match in the accumulated text, with the match of that text;
\* from then on the accumulation buffer is discarded and stays discarded, and
\* no chunk delivered later is accumulated, matched, or changes the resolved
\* captured groups.
C11_FirstMatchWins ==
    [][ /\ (outcome.kind = "pending" /\ outcome'.kind = "resolved") =>
              /\ ~PatternExec(processOutput).found
              /\ outcome'.match = PatternExec(processOutput \o Utf8ToString(NewBytes))
              /\ processOutput' = Null
        /\ outcome.kind = "resolved" =>
              /\ processOutput = Null /\ processOutput' = Null
              /\ outcome' = outcome
              /\ ~promisePending /\ ~promisePending'
      ]_vars

\* A chunk was delivered after the match had resolved the wait.
C11_Witness == outcome.kind = "resolved" /\ lateData /\ Len(stdoutBytes) = MaxOut

\* C12: a spawn error that is the first deciding event fails the start of the
\* adapter with that error: the wait is rejected with the reported error and
\* keeps it whatever follows (exit, timer expiry, output), startDebugAdapter
\* throws, and no AdapterProcess is constructed.
C12_SpawnErrorFails ==
    [][ /\ (outcome.kind = "pending" /\ ~errorNotified /\ errorNotified')
              => outcome' = Rejected("SpawnError", <<>>)
        /\ (outcome.kind = "rejected" /\ outcome.code = "SpawnError") =>
              /\ outcome' = outcome
              /\ adapterProc' = "none" /\ ~isAlive'
              /\ startState' \in {"awaiting", "threw"}
              /\ ~killedByTimer'
      ]_vars

\* startDebugAdapter threw the spawn error; the exit and the timer came later.
C12_Witness ==
    /\ startState = "threw" /\ adapterProc = "none"
    /\ outcome = Rejected("SpawnError", <<>>)
    /\ exitNotified /\ timer = "fired"

\* C33: an AdapterProcess never reports isAlive = true for a process whose
\* exit has been notified.  The exit of a process whose handshake has matched
\* finds the AdapterProcess constructed (the continuation that constructs it
\* runs before any event that follows the match) and turns isAlive false.
C33_NeverAliveAfterExit ==
    /\ (adapterProc = "constructed" /\ exitNotified) => ~isAlive
    /\ (outcome.kind = "resolved" /\ exitNotified) =>
          (adapterProc = "constructed" /\ startState = "returned" /\ ~isAlive)
    /\ (adapterProc = "constructed" /\ ~exitNotified) => isAlive

\* The process exited by itself after the handshake had matched.
C33_Witness ==
    /\ outcome.kind = "resolved" /\ exitNotified
    /\ adapterProc = "constructed" /\ ~isAlive
    /\ ~killedByTerminate /\ ~killedByTimer

(***************************************************************************)
(* Properties of the two output channels (checked under SpecChannels).     *)
(***************************************************************************)
\* The text written to standard error so far holds a line matching the pattern.
StderrMatches(bytes) == PatternExec(Utf8ToString(bytes)).found

\* C31: a line matching the pattern completes the handshake whether it is
\* written to standard output or to standard error: a pending wait is
\* resolved by the 'data' event that completes a match in the text of either
\* channel.
C31_EitherChannelCompletes ==
    [][ /\ (outcome.kind = "pending" /\ stdoutBytes' # stdoutBytes
            /\ PatternExec(processOutput \o Utf8ToString(NewBytes)).found)
              => outcome'.kind = "resolved"
        /\ (outcome.kind = "pending" /\ stderrBytes' # stderrBytes
            /\ StderrMatches(stderrBytes'))
              => outcome'.kind = "resolved"
      ]_vars

\* C31 as the code has it: the detector watches standard output only.  A
\* pending wait is resolved by the 'data' event of standard output that
\* completes a match in the text accumulated from standard output, and
\* nothing written to standard error resolves it, is accumulated, or stops
\* the timer; a wait whose only matching line is on standard error stays
\* pending until the timer, the exit or a spawn error rejects it.
C31_StdoutOnly ==
    [][ /\ (outcome.kind = "pending" /\ stdoutBytes' # stdoutBytes
            /\ PatternExec(processOutput \o Utf8ToString(NewBytes)).found)
              => outcome'.kind = "resolved"
        /\ stderrBytes' # stderrBytes
              => UNCHANGED <<outcome, processOutput, promisePending, timer>>
        /\ (outcome.kind = "pending" /\ outcome'.kind = "resolved")
              => (stdoutBytes' # stdoutBytes /\ stderrBytes' = stderrBytes)
      ]_vars

\* The matching line was written to standard error and the wait timed out.
C31_Witness ==
    /\ StderrMatches(stderrBytes)
    /\ outcome.kind = "rejected" /\ outcome.code = "Timeout"
    /\ startState = "threw"

\* The matching line was written to standard output after other text on
\* standard error, and the wait resolved.
ResolvedWithStderrText ==
    /\ stderrBytes # <<>> /\ ~StderrMatches(stderrBytes)
    /\ outcome.kind = "resolved"

(***************************************************************************)
(* Properties of the start of the adapter (checked under SpecStart).       *)
(***************************************************************************)
\* The wait has resolved with a match whose first group is the digits of n.
ResolvedWithPort(n) ==
    /\ outcome.kind = "resolved"
    /\ outcome.match.found
    /\ outcome.match.group1 # <<>>
    /\ n = ParseInt(outcome.match.group1)

\* A failed handshake produces no AdapterProcess and no connection attempt.
FailedHandshakeStartsNothing ==
    (outcome.kind = "rejected" \/ startState = "threw") =>
        (adapterProc = "none" /\ port = 0 /\ sessionPort = 0 /\ connectPort = 0)

\* C24 as stated: the connection is opened, and the AdapterProcess is
\* produced, only after the wait has resolved with a match, on the port that
\* is the number of the match's first group; a failed handshake produces no
\* AdapterProcess and no connection attempt.
C24_ConnectAfterHandshake ==
    /\ connectPort # 0 => ResolvedWithPort(connectPort)
    /\ adapterProc = "constructed" => ResolvedWithPort(port)
    /\ FailedHandshakeStartsNothing

\* C24 as amended: the same for every start that spawns the adapter; a test
\* session started with DEBUG_SERVER set spawns nothing, awaits no handshake
\* and connects on the port DEBUG_SERVER gives.
C24_ConnectAfterHandshakeOrServer ==
    /\ (connectPort # 0 /\ debugServer = <<>>) => ResolvedWithPort(connectPort)
    /\ (connectPort # 0 /\ debugServer # <<>>) =>
          (/\ connectPort = ParseInt(debugServer)
           /\ starter = "DebugTestSession.start"
           /\ outcome.kind = "pending" /\ stdoutBytes = <<>>)
    /\ adapterProc = "constructed" => ResolvedWithPort(port)
    /\ FailedHandshakeStartsNothing

\* The test session connected on the two-digit port its adapter announced.
C24_Witness ==
    /\ starter = "DebugTestSession.start" /\ debugServer = <<>>
    /\ startState = "returned"
    /\ outcome.kind = "resolved" /\ outcome.match.group1 = <<"4", "4">>
    /\ connectPort = 44

\* The handshake of a test session failed.
TestHandshakeFailed ==
    /\ starter = "DebugTestSession.start" /\ startState = "threw"
    /\ outcome.kind = "rejected"

(***************************************************************************)
(* Properties of expandDbgConfig (checked under SpecExpand).               *)
(***************************************************************************)
\* The names a string refers to with ${dbgconfig:name} tokens.
RECURSIVE RefsFrom(_, _)
RefsFrom(str, i) ==
    IF i > Len(str) THEN {}
    ELSE IF RegexMatchesAt(str, i)
    THEN LET body == MatchBody(str, i)
         IN  (IF MatchType(body) = <<"D">> THEN {MatchKey(body)} ELSE {})
             \cup RefsFrom(str, ClosingBrace(str, i + 2) + 1)
    ELSE RefsFrom(str, i + 1)

RECURSIVE ValueRefs(_)
ValueRefs(value) ==
    IF value.kind = "string" THEN RefsFrom(value.str, 1)
    ELSE IF value.kind = "array"
    THEN UNION {ValueRefs(value.items[i]) : i \in 1..Len(value.items)}
    ELSE IF value.kind = "object"
    THEN UNION {ValueRefs(value.items[i].value) : i \in 1..Len(value.items)}
    ELSE {}

Names(cfg) == {cfg[i].key : i \in 1..Len(cfg)}

\* The names reachable from the names of S by following references, in at
\* most n more steps.
RECURSIVE ReachableFrom(_, _, _)
ReachableFrom(cfg, S, n) ==
    IF n = 0 THEN S
    ELSE ReachableFrom(cfg,
                       S \cup UNION {ValueRefs(GetProp(cfg, k)) : k \in S \cap Names(cfg)},
                       n - 1)

\* The names that lie on a cycle of references.
CycleNames(cfg) ==
    {k \in Names(cfg) : k \in ReachableFrom(cfg, ValueRefs(GetProp(cfg, k)), Len(cfg))}

\* The names referred to and not defined.
UndefinedRefs(cfg) ==
    UNION {ValueRefs(cfg[i].value) : i \in 1..Len(cfg)} \ Names(cfg)

RECURSIVE PlainFrom(_, _)
PlainFrom(str, i) ==
    IF i > Len(str) THEN TRUE
    ELSE IF RegexMatchesAt(str, i) THEN PlainFrom(str, ClosingBrace(str, i + 2) + 1)
    ELSE str[i] \notin {"$", "{", "}"} /\ PlainFrom(str, i + 1)

RECURSIVE PlainValue(_)
PlainValue(value) ==
    IF value.kind = "array"
    THEN \A i \in 1..Len(value.items) : PlainValue(value.items[i])
    ELSE IF value.kind = "object"
    THEN \A i \in 1..Len(value.items) : PlainValue(value.items[i].value)
    ELSE PlainFrom(value.str, 1)

PlainConfig(cfg) == \A i \in 1..Len(cfg) : PlainValue(cfg[i].value)

C19_Terminates ==
    /\ passes <= Len(dbgconfigConfig) + 1
    /\ expandPc = "fixpoint" => (passes < MaxPasses /\ (passes > 0 => ~converged))
    /\ expandPc \in {"launchConfig", "returned"} => converged
    /\ expandPc = "threw" => thrown.error \in {"circular", "undefined"}

\* A run converged in its third pass.
C19_Witness == expandPc = "returned" /\ passes = 3 /\ converged

\* C20: after expandDbgConfig has returned, no string of the returned
\* configuration contains a ${dbgconfig:name} reference.
C20_NoUnresolvedReference ==
    expandPc = "returned" => ValueRefs(debugConfig) = {}

\* What holds of C20's statement: it holds when neither the launch
\* configuration nor the mapping has "$", "{" or "}" outside reference tokens.
NoUnresolvedReferencePlain ==
    (PlainValue(debugConfigArg) /\ PlainConfig(dbgconfigConfig))
        => C20_NoUnresolvedReference

\* Whether a value has a reference token, of any type.
RECURSIVE HasToken(_)
HasToken(value) ==
    IF value.kind = "string" THEN \E i \in 1..Len(value.str) : RegexMatchesAt(value.str, i)
    ELSE IF value.kind = "array"
    THEN \E k \in 1..Len(value.items) : HasToken(value.items[k])
    ELSE IF value.kind = "object"
    THEN \E k \in 1..Len(value.items) : HasToken(value.items[k].value)
    ELSE FALSE

\* expandDbgConfig applied to the returned configuration with the same
\* mapping: the loop computes the same dbgconfig from the same
\* dbgconfigConfig, and the returned configuration is expanded with it.
ExpandedAgain == ExpandVariablesInObject(debugConfig, dbgconfig, <<>>)

\* C21: expansion is idempotent.  A launch configuration without reference
\* tokens is returned unchanged, and expanding the result of a successful
\* expansion again gives the same result.
C21_Idempotent ==
    expandPc = "returned" =>
        /\ ~HasToken(debugConfigArg) => debugConfig = debugConfigArg
        /\ ~ExpandedAgain.threw
        /\ ExpandedAgain.value = debugConfig

\* What holds of C21's statement: it holds when neither the launch
\* configuration nor the mapping has "$", "{" or "}" outside reference tokens.
IdempotentPlain ==
    (PlainValue(debugConfigArg) /\ PlainConfig(dbgconfigConfig)) => C21_Idempotent

\* The first half of C21 alone: a launch configuration without tokens is
\* returned as it was passed.
UnchangedWithoutTokens ==
    (expandPc = "returned" /\ ~HasToken(debugConfigArg)) => debugConfig = debugConfigArg

\* The names that tokens of the mapping or of the launch configuration refer
\* to and the mapping does not define.
UndefinedSymbols ==
    UndefinedRefs(dbgconfigConfig) \cup (ValueRefs(debugConfigArg) \ Names(dbgconfigConfig))

\* C22 as stated: when a token of the mapping or of the launch configuration
\* names a symbol that is not defined, the run returns no result and fails
\* with the undefined-reference error naming that symbol.
C22_UndefinedReferenceFails ==
    UndefinedSymbols # {} =>
        /\ expandPc # "returned"
        /\ expandPc = "fixpoint" => passes < MaxPasses
        /\ expandPc = "threw" =>
              (thrown.error = "undefined" /\ thrown.key \in UndefinedSymbols)

\* C22 as amended: when a token of the mapping or of the launch configuration
\* names a symbol that is not defined, the run returns no result and fails.
\* The error is the undefined-reference error naming such a symbol, or the
\* circular-dependency error thrown first by the loop; the latter only when
\* the mapping has a cycle of references or a value with "$", "{" or "}"
\* outside its reference tokens.
C22_UndefinedNeverResolved ==
    UndefinedSymbols # {} =>
        /\ expandPc # "returned"
        /\ expandPc = "fixpoint" => passes < MaxPasses
        /\ expandPc = "threw" =>
              \/ thrown.error = "undefined" /\ thrown.key \in UndefinedSymbols
              \/ /\ thrown.error = "circular"
                 /\ CycleNames(dbgconfigConfig) # {} \/ ~PlainConfig(dbgconfigConfig)

\* The loop converged after resolving references and the launch
\* configuration then named a symbol that is not defined.
C22_Witness ==
    /\ expandPc = "threw" /\ thrown.error = "undefined" /\ passes >= 2
    /\ UndefinedRefs(dbgconfigConfig) = {}
    /\ thrown.key \in ValueRefs(debugConfigArg)

\* The mapping itself named a symbol that is not defined.
UndefinedInMapping ==
    /\ expandPc = "threw" /\ thrown.error = "undefined"
    /\ thrown.key \in UndefinedRefs(dbgconfigConfig)

\* The value `new` is the value `old` but for the text of its strings: the
\* same kinds, keys, lengths and order, and the same scalars that are not
\* strings.
RECURSIVE SameButStrings(_, _)
SameButStrings(old, new) ==
    IF old.kind = "string" THEN new.kind = "string" /\ new.items = <<>>
    ELSE IF old.kind \in {"array", "object"}
    THEN /\ new.kind = old.kind
         /\ new.str = old.str
         /\ Len(new.items) = Len(old.items)
         /\ \A i \in 1..Len(old.items) :
               IF old.kind = "array" THEN SameButStrings(old.items[i], new.items[i])
               ELSE /\ new.items[i].key = old.items[i].key
                    /\ SameButStrings(old.items[i].value, new.items[i].value)
    ELSE new = old

\* C29: expandVariablesInObject returns the scalars that are not strings
\* unchanged and rewrites only the string leaves of arrays and objects: the
\* values of the mapping after every pass, and the launch configuration
\* returned, have the keys, the order and the nesting they were passed with.
C29_OnlyStringsRewritten ==
    /\ expandPc # "idle" =>
          /\ Len(dbgconfig) = Len(dbgconfigConfig)
          /\ \A i \in 1..Len(dbgconfigConfig) :
                /\ dbgconfig[i].key = dbgconfigConfig[i].key
                /\ SameButStrings(dbgconfigConfig[i].value, dbgconfig[i].value)
    /\ expandPc = "returned" => SameButStrings(debugConfigArg, debugConfig)

\* The kinds of the scalars of a value that are not strings.
RECURSIVE OtherScalars(_)
OtherScalars(value) ==
    IF value.kind = "string" THEN {}
    ELSE IF value.kind = "array"
    THEN UNION {OtherScalars(value.items[i]) : i \in 1..Len(value.items)}
    ELSE IF value.kind = "object"
    THEN UNION {OtherScalars(value.items[i].value) : i \in 1..Len(value.items)}
    ELSE {value.kind}

\* A launch configuration with nested objects and arrays, with null, a
\* boolean and a number among its leaves, was returned with a string
\* rewritten.
C29_Witness ==
    /\ expandPc = "returned"
    /\ debugConfigArg.kind = "object"
    /\ OtherScalars(debugConfigArg) = {"null", "boolean", "number"}
    /\ debugConfig # debugConfigArg

\* A launch configuration with an object in an object, an array in an array
\* and undefined among its leaves was returned with a string rewritten.
NestedReturned ==
    /\ expandPc = "returned"
    /\ OtherScalars(debugConfigArg) = {"undefined"}
    /\ debugConfig # debugConfigArg

\* The text of str from position i on with every ${dbgconfig:name} token of
\* a defined name replaced by the string form of the fully expanded value of
\* name, references being followed at most fuel deep; every other token and
\* all other text is kept.
RECURSIVE FullValue(_, _, _)
RECURSIVE FullText(_, _, _, _, _)
FullText(str, i, cfg, fuel, done) ==
    IF i > Len(str) THEN done
    ELSE IF RegexMatchesAt(str, i)
    THEN LET j == ClosingBrace(str, i + 2)
             body == SubSeq(str, i + 2, j - 1)
         IN  FullText(str, j + 1, cfg, fuel,
                      done \o (IF /\ MatchType(body) = <<"D">>
                                  /\ HasProp(cfg, MatchKey(body))
                                  /\ fuel > 0
                               THEN ValueToString(FullValue(GetProp(cfg, MatchKey(body)),
                                                            cfg, fuel - 1))
                               ELSE SubSeq(str, i, j)))
    ELSE FullText(str, i + 1, cfg, fuel, Append(done, str[i]))

\* A value with the tokens of its string leaves replaced in that way.
FullValue(value, cfg, fuel) ==
    IF value.kind = "string" THEN StringValue(FullText(value.str, 1, cfg, fuel, <<>>))
    ELSE IF value.kind = "array"
    THEN ArrayValue([k \in 1..Len(value.items) |-> FullValue(value.items[k], cfg, fuel)])
    ELSE IF value.kind = "object"
    THEN ObjectValue([k \in 1..Len(value.items) |->
                        Prop(value.items[k].key, FullValue(value.items[k].value, cfg, fuel))])
    ELSE value

\* Every reference of the mapping and of the launch configuration is
\* defined, and no name of the mapping lies on a cycle of references.
DefinedAndAcyclic ==
    /\ UndefinedRefs(dbgconfigConfig) = {}
    /\ CycleNames(dbgconfigConfig) = {}
    /\ ValueRefs(debugConfigArg) \subseteq Names(dbgconfigConfig)

\* C37: for a mapping whose references are all defined and acyclic,
\* expandDbgConfig does not fail, and it returns the launch configuration
\* with every ${dbgconfig:name} token replaced by the string form of the
\* fully expanded value of name, whatever the order of the keys and the
\* length of the chains of references.
C37_AcyclicFullyExpanded ==
    DefinedAndAcyclic =>
        /\ expandPc # "threw"
        /\ expandPc = "returned" =>
              debugConfig = FullValue(debugConfigArg, dbgconfigConfig,
                                      Len(dbgconfigConfig) + 1)

\* What holds of C37's statement: it holds when neither the launch
\* configuration nor the mapping has "$", "{" or "}" outside reference tokens.
AcyclicFullyExpandedPlain ==
    (PlainValue(debugConfigArg) /\ PlainConfig(dbgconfigConfig))
        => C37_AcyclicFullyExpanded

\* A chain of references against the order of the keys (a refers to b, b to
\* c) was expanded in the launch configuration.
BackwardChainExpanded ==
    /\ expandPc = "returned" /\ DefinedAndAcyclic
    /\ PlainValue(debugConfigArg) /\ PlainConfig(dbgconfigConfig)
    /\ ValueRefs(dbgconfigConfig[1].value) = {<<"b">>}
    /\ ValueRefs(dbgconfigConfig[2].value) = {<<"c">>}
    /\ ValueRefs(debugConfigArg) = {<<"a">>}
    /\ debugConfig # debugConfigArg

\* An acyclic mapping was refused with the circular-dependency error.
AcyclicRefusedAsCircular ==
    /\ expandPc = "threw" /\ DefinedAndAcyclic
    /\ thrown.error = "circular"

(***************************************************************************)
(* Properties of spawnDebugger (checked under SpecSpawn).                  *)
(***************************************************************************)
\* The tokens of a string, each with its type and its key.
RECURSIVE TokensFrom(_, _)
TokensFrom(str, i) ==
    IF i > Len(str) THEN {}
    ELSE IF RegexMatchesAt(str, i)
    THEN LET body == MatchBody(str, i)
         IN  {[type |-> MatchType(body), key |-> MatchKey(body)]}
             \cup TokensFrom(str, ClosingBrace(str, i + 2) + 1)
    ELSE TokensFrom(str, i + 1)

\* A value of adapterEnv has a token whose type is not 'env'.
ForeignToken ==
    \E i \in 1..Len(adapterEnv) :
        \E t \in TokensFrom(adapterEnv[i].value, 1) : t.type # <<"E">>

\* The text of a string with every ${env:NAME} token whose NAME is set in
\* the host environment replaced by the value of NAME, and every other token
\* left as it is.
RECURSIVE HostResolved(_, _, _)
HostResolved(str, i, host) ==
    IF i > Len(str) THEN <<>>
    ELSE IF RegexMatchesAt(str, i)
    THEN LET j == ClosingBrace(str, i + 2)
             body == MatchBody(str, i)
         IN  (IF MatchType(body) = <<"E">> /\ HasProp(host, MatchKey(body))
              THEN GetProp(host, MatchKey(body))
              ELSE SubSeq(str, i, j))
             \o HostResolved(str, j + 1, host)
    ELSE <<str[i]>> \o HostResolved(str, i + 1, host)

\* The call throws exactly when a token has a type other than 'env', and
\* then nothing is spawned.
ThrowsOnForeignToken ==
    /\ spawnPc = "threw" <=> (spawnPc # "called" /\ ForeignToken)
    /\ spawnPc = "threw" =>
          (/\ spawnEnv = <<>>
           /\ spawnThrown.error = "unknownType" /\ spawnThrown.key # <<"E">>)

\* C30 as stated: every ${env:NAME} token of the adapterEnv values is
\* resolved against the host environment before the process is spawned, and
\* the process gets the host environment overridden by the expanded values;
\* a token of another namespace makes the call throw and nothing is spawned.
C30_EveryEnvTokenResolved ==
    spawnPc # "called" =>
        /\ ThrowsOnForeignToken
        /\ spawnPc = "spawned" =>
              /\ Names(spawnEnv) = Names(processEnv) \cup Names(adapterEnv)
              /\ \A name \in Names(spawnEnv) :
                    IF name \in Names(adapterEnv)
                    THEN /\ TokensFrom(GetProp(spawnEnv, name), 1) = {}
                         /\ TokensFrom(GetProp(adapterEnv, name), 1) = {}
                               => GetProp(spawnEnv, name) = GetProp(adapterEnv, name)
                    ELSE GetProp(spawnEnv, name) = GetProp(processEnv, name)

\* C30 as amended: every ${env:NAME} token whose NAME is set in the host
\* environment is replaced by the value of NAME, a token whose NAME is not
\* set is left as it is; the process gets the host environment overridden
\* by the expanded values, and on macOS PATH is '/usr/bin:' followed by the
\* host's PATH whatever adapterEnv gives; a token of another type, or of no
\* type, makes the call throw and nothing is spawned.
C30_EnvExpandedBeforeSpawn ==
    spawnPc # "called" =>
        /\ ThrowsOnForeignToken
        /\ spawnPc = "spawned" =>
              /\ Names(spawnEnv) = Names(processEnv) \cup Names(adapterEnv)
              /\ \A name \in Names(spawnEnv) :
                    GetProp(spawnEnv, name) =
                        IF platform = "darwin" /\ name = <<"P">>
                        THEN <<"u">> \o GetProp(processEnv, <<"P">>)
                        ELSE IF name \in Names(adapterEnv)
                        THEN HostResolved(GetProp(adapterEnv, name), 1, processEnv)
                        ELSE GetProp(processEnv, name)
              /\ \A i \in 1..Len(adapterEnv) :
                    (/\ adapterEnv[i].value = <<"x">> \o EnvToken("a") \o EnvToken("b")
                     /\ processEnv = <<Prop(<<"P">>, <<"x">>), Prop(<<"a">>, <<"x">>)>>
                     /\ adapterEnv[i].key # <<"P">>)
                       => GetProp(spawnEnv, adapterEnv[i].key) = <<"x", "x">> \o EnvToken("b")

\* The adapter was spawned with a replaced by a text that has a token of a
\* name that is set and a token of a name that is not, and c by a text with
\* the host's PATH.
C30_Witness ==
    /\ spawnPc = "spawned" /\ platform = "linux"
    /\ processEnv = <<Prop(<<"P">>, <<"x">>), Prop(<<"a">>, <<"x">>)>>
    /\ adapterEnv = <<Prop(<<"a">>, <<"x">> \o EnvToken("a") \o EnvToken("b")),
                      Prop(<<"c">>, EnvToken("P") \o <<"x">>)>>
    /\ spawnEnv = <<Prop(<<"P">>, <<"x">>),
                    Prop(<<"a">>, <<"x", "x">> \o EnvToken("b")),
                    Prop(<<"c">>, <<"x", "x">>)>>

\* The call threw for a token without a type.
ThrewForTokenWithoutType ==
    spawnPc = "threw" /\ spawnThrown.key = <<>>

(***************************************************************************)
(* Properties of compareVariables (checked under SpecCompare).             *)
(***************************************************************************)
\* The key paths at which the observed variables diverge from the expected
\* tree under the comparison policy, all of them.
RECURSIVE Divergent(_, _, _)
Divergent(varRef, exp, prefix) ==
    IF varRef = 0 THEN {prefix}
    ELSE UNION {
        LET keyPath == Append(prefix, exp[i].key)
            expectedValue == exp[i].val
            variable == VarsLookup(VariablesResponse(varRef), exp[i].key)
        IN  IF exp[i].key = "$" THEN {}
            ELSE IF variable = Undefined THEN {keyPath}
            ELSE IF expectedValue.kind = "null" THEN {}
            ELSE IF expectedValue.kind = "string"
                 THEN IF variable.value = expectedValue.str THEN {} ELSE {keyPath}
            ELSE IF expectedValue.kind = "number"
                 THEN IF NumEquals(ParseFloat(variable.value), expectedValue.num)
                      THEN {} ELSE {keyPath}
            ELSE LET summary == SummaryOf(expectedValue.fields)
                 IN  (IF summary.kind # "null" /\ variable.value # summary.str
                      THEN {keyPath} ELSE {})
                     \cup Divergent(variable.variablesReference,
                                    expectedValue.fields, keyPath)
        : i \in 1..Len(exp)}

\* The key paths the thrown error names.
ReportedPaths == {cmpResult.errors[i].path : i \in 1..Len(cmpResult.errors)}

\* C16: the comparison does not stop at the first mismatch: the error raised
\* at the end lists every divergent path.
C16_ReportsAllMismatches ==
    cmpPc = "done" => ReportedPaths = Divergent(varRefArg, expected, <<>>)

\* What the code does instead: it throws at the first divergent path in visit
\* order, and visits nothing after it.
FailsAtFirstMismatch ==
    cmpPc = "done" =>
        LET all == Divergent(varRefArg, expected, <<>>)
        IN  /\ cmpResult.status = "failed" <=> all # {}
            /\ Len(cmpResult.errors) <= 1
            /\ ReportedPaths \subseteq all
            /\ (cmpResult.status = "failed" /\ cmpResult.visited # <<>>) =>
                  /\ cmpResult.errors[1].path = cmpResult.visited[Len(cmpResult.visited)]
                  /\ \A i \in 1..(Len(cmpResult.visited) - 1) :
                        cmpResult.visited[i] \notin all

\* expected {a: 1, b: "x"} against the observed a = "1", b = "y"
IsExampleAB ==
    /\ varRefArg = 1
    /\ expected = <<Entry("a", ExpNum(1)), Entry("b", ExpStr("x"))>>
    /\ \E ra, rb \in {0, 2} :
          variables[1] = <<Variable("a", "1", ra), Variable("b", "y", rb)>>

\* C17: a key whose observed value satisfies its expected value is never
\* reported as a mismatch; comparing {a: 1, b: "x"} with a = "1", b = "y"
\* fails with an error that names b and does not name a.
C17_NamesOnlyMismatches ==
    cmpPc = "done" =>
        /\ ReportedPaths \subseteq Divergent(varRefArg, expected, <<>>)
        /\ IsExampleAB =>
              (cmpResult.status = "failed" /\ ReportedPaths = {<<"b">>})

\* The comparison of the example has run.
C17_Witness == cmpPc = "done" /\ IsExampleAB /\ cmpResult.status = "failed"

\* The node a key of the expected tree names among the children of the
\* reference the test passed.
NodeOf(key) == VarsLookup(VariablesResponse(varRefArg), key)

\* The call has looked up the i-th key of the expected tree and found a node.
Reached(i) ==
    /\ cmpPc = "done" /\ varRefArg # 0
    /\ <<expected[i].key>> \in {cmpResult.visited[k] : k \in 1..Len(cmpResult.visited)}
    /\ NodeOf(expected[i].key) # Undefined

\* The call has failed with the given assertion at the given key path.
FailedWith(what, path) ==
    /\ cmpResult.status = "failed"
    /\ cmpResult.errors = <<[what |-> what, path |-> path]>>

\* The key paths of the nodes whose children were requested.
RequestedPaths == {cmpResult.requested[k].path : k \in 1..Len(cmpResult.requested)}

\* The summary expected of the i-th key is absent or is the node's value.
SummaryAgrees(i) ==
    LET summary == SummaryOf(expected[i].val.fields)
    IN  summary.kind = "null" \/ NodeOf(expected[i].key).value = summary.str

\* C25: reference zero is never expanded.  No 'variables' request is sent
\* for reference 0: a call with reference 0 fails before it sends a request,
\* and so does the call for an object-valued expected entry whose node has
\* variablesReference 0.
C25_ZeroNeverExpanded ==
    cmpPc = "done" =>
        /\ \A k \in 1..Len(cmpResult.requested) : cmpResult.requested[k].ref # 0
        /\ varRefArg = 0 =>
              (FailedWith("zeroReference", <<>>) /\ cmpResult.requested = <<>>)
        /\ \A i \in 1..Len(expected) :
              (/\ Reached(i)
               /\ expected[i].val.kind = "object"
               /\ SummaryAgrees(i)
               /\ NodeOf(expected[i].key).variablesReference = 0)
                 => (/\ FailedWith("zeroReference", <<expected[i].key>>)
                     /\ <<expected[i].key>> \notin RequestedPaths)

\* The children of a were requested and compared; the node of b, expected
\* to be an object, has variablesReference 0.
C25_Witness ==
    /\ cmpPc = "done" /\ varRefArg = 1
    /\ FailedWith("zeroReference", <<"b">>)
    /\ cmpResult.requested = <<[ref |-> 1, path |-> <<>>], [ref |-> 2, path |-> <<"a">>]>>

\* C26: the summary under '$' is compared with the node's own value before
\* the node's children are requested: a summary mismatch is raised without a
\* request for the children, and '$' is never looked up as a child.
C26_SummaryBeforeChildren ==
    cmpPc = "done" =>
        /\ \A k \in 1..Len(cmpResult.visited) :
              cmpResult.visited[k][Len(cmpResult.visited[k])] # "$"
        /\ \A i \in 1..Len(expected) :
              (/\ Reached(i)
               /\ expected[i].val.kind = "object"
               /\ ~SummaryAgrees(i))
                 => (/\ FailedWith("summary", <<expected[i].key>>)
                     /\ <<expected[i].key>> \notin RequestedPaths)
        /\ \A k \in 1..Len(cmpResult.errors) :
              cmpResult.errors[k].what = "summary" =>
                  cmpResult.errors[k].path \notin RequestedPaths

\* The summary of b differs although b can be expanded; the children of a,
\* whose summary agrees, were requested before.
C26_Witness ==
    /\ cmpPc = "done" /\ varRefArg = 1
    /\ FailedWith("summary", <<"b">>)
    /\ NodeOf("b").variablesReference = 2
    /\ SummaryOf(expected[1].val.fields).kind = "string"
    /\ cmpResult.requested = <<[ref |-> 1, path |-> <<>>], [ref |-> 2, path |-> <<"a">>]>>

\* C27: a null expected value asserts presence only.  An entry key: null
\* that the call reaches fails exactly when no listed child has that name,
\* whatever the value of the child.
C27_NullAssertsPresence ==
    (cmpPc = "done" /\ varRefArg # 0) =>
        \A i \in 1..Len(expected) :
            LET key == expected[i].key
                nodes == VariablesResponse(varRefArg)
                listed == \E k \in 1..Len(nodes) : nodes[k].name = key
                reached == <<key>> \in {cmpResult.visited[k] : k \in 1..Len(cmpResult.visited)}
            IN  (reached /\ expected[i].val = ExpNull) =>
                    /\ listed => (\A k \in 1..Len(cmpResult.errors) :
                                     cmpResult.errors[k].path # <<key>>)
                    /\ ~listed => FailedWith("notFound", <<key>>)

\* {a: null, b: null} passed against two children of different values.
C27_Witness ==
    /\ cmpPc = "done" /\ varRefArg = 1
    /\ expected = <<Entry("a", ExpNull), Entry("b", ExpNull)>>
    /\ cmpResult.status = "passed"
    /\ NodeOf("a").value = "x" /\ NodeOf("b").value = "1.0"

\* The number a rendered value stands for, if it has the form of a number.
NumberRendered(value) ==
    CASE value \in {"1", "1.0"} -> 1
      [] value = "2"          -> 2
      [] OTHER                -> -1

\* C28: a numeric expected value is compared numerically.  An entry with an
\* expected number that the call reaches passes exactly when the number
\* parsed from the node's value equals it: "1" and "1.0" both satisfy 1, a
\* value that is no number satisfies none.
C28_NumericComparison ==
    \A i \in 1..Len(expected) :
        (Reached(i) /\ expected[i].val.kind = "number") =>
            LET key == expected[i].key
                value == NodeOf(key).value
                failedHere == \E k \in 1..Len(cmpResult.errors) :
                                  cmpResult.errors[k].path = <<key>>
            IN  /\ failedHere <=> ~NumEquals(ParseFloat(value), expected[i].val.num)
                /\ NumberRendered(value) = expected[i].val.num => ~failedHere
                /\ value \in {"x", "y", "s"} => failedHere
                /\ (NumberRendered(value) >= 0
                      /\ NumberRendered(value) # expected[i].val.num) => failedHere

\* {a: 1, b: 1} passed against a = "1", b = "1.0".
C28_Witness ==
    /\ cmpPc = "done" /\ varRefArg = 1
    /\ expected = <<Entry("a", ExpNum(1)), Entry("b", ExpNum(1))>>
    /\ cmpResult.status = "passed"
    /\ NodeOf("a").value = "1" /\ NodeOf("b").value = "1.0"

(***************************************************************************)
(* Properties of the protocol session (checked under SpecSession).         *)
(***************************************************************************)
Settled(s) == requests[s].result.kind \in {"ok", "error"}

\* C2: every request that a Response has settled was settled by the
\* Response whose request_seq is the request's own seq, an answer the adapter
\* gave to that request, in whatever order the Responses arrived.
C2_ResponseMatchesRequest ==
    \A s \in DOMAIN requests :
        Settled(s) => (requests[s].result.request_seq = s /\ s \in answered)

\* Three requests were outstanding at once, and the Responses to the two
\* younger ones arrived before the Response to the oldest.
C2_Witness ==
    \E s1, s2, s3 \in DOMAIN requests :
        /\ s1 < s2 /\ s2 < s3
        /\ s1 \in pendingRequests /\ Settled(s2) /\ Settled(s3)
        /\ requests[s2].command = "setBreakpoints"
        /\ requests[s3].command = "setBreakpoints"

ConfigurationDoneSeqs == {s \in DOMAIN requests : requests[s].command = "configurationDone"}

LaunchSeqs == {s \in DOMAIN requests : requests[s].command \in {"launch", "attach"}}

InitializeSeqs == {s \in DOMAIN requests : requests[s].command = "initialize"}

\* C4 as stated: configurationDone is sent only after the 'initialized' event
\* and the Response to the launch/attach request have both been received.
C4_ConfigurationDoneAfterBoth ==
    ConfigurationDoneSeqs # {} =>
        /\ waiters[Launch] = "resolved"
        /\ \E s \in LaunchSeqs : Settled(s)

\* C4 as amended: configurationDone is sent only after the 'initialized'
\* event has been received, the initialize Response has been received and the
\* launch/attach request has been sent.
C4_ConfigurationDoneAfterInitialized ==
    \A c \in ConfigurationDoneSeqs :
        /\ waiters[Launch] = "resolved"
        /\ \E s \in InitializeSeqs : requests[s].result.kind = "ok"
        /\ \E s \in LaunchSeqs : s < c

\* configurationDone is on the wire and the launch/attach request is
\* still unanswered.
C4_Witness ==
    /\ \E c \in ConfigurationDoneSeqs : c \in pendingRequests
    /\ \E s \in LaunchSeqs : s \in pendingRequests /\ s \notin answered

(***************************************************************************)
(* Properties of breakpoints set before launch (checked under              *)
(* SpecBreakpointFirst).                                                   *)
(***************************************************************************)
\* The seqs of the setBreakpoints requests of the i-th setBreakpoint call.
BreakpointSeqs(i) == {s \in DOMAIN requests : requests[s].caller = Bp(i)}

\* Request s was written to the adapter.
Sent(s) == \E k \in 1..Len(sent) : sent[k] = s

\* C34: a setBreakpoint (or setFnBreakpoint) call made before launch sends
\* its request only after the 'initialized' event has been received, and
\* before launch sends configurationDone.
C34_BreakpointsBeforeConfigurationDone ==
    \A i \in 1..MaxBp :
        bpPc[i] # "idle" =>
            /\ BreakpointSeqs(i) # {} =>
                  (waiters[Bp(i)] = "resolved" /\ initializedEmitted)
            /\ waiters[Bp(i)] = "pending" => BreakpointSeqs(i) = {}
            /\ \A c \in ConfigurationDoneSeqs :
                  \E s \in BreakpointSeqs(i) : s < c /\ Sent(s)

\* Two breakpoints were set before launch; the event came after the
\* initialize Response, and both setBreakpoints requests went out between the
\* launch request and configurationDone.
C34_Witness ==
    /\ Len(sent) = 5
    /\ requests[sent[1]].command = "initialize"
    /\ requests[sent[2]].command \in {"launch", "attach"}
    /\ requests[sent[3]].command = "setBreakpoints"
    /\ requests[sent[4]].command = "setBreakpoints"
    /\ requests[sent[5]].command = "configurationDone"

\* The event came before the initialize Response: the setBreakpoints request
\* went out before the launch request.
BreakpointBeforeLaunchRequest ==
    /\ Len(sent) >= 3
    /\ requests[sent[2]].command = "setBreakpoints"
    /\ \E k \in 3..Len(sent) : requests[sent[k]].command = "configurationDone"

\* C32: launch/attach does not wait forever for the 'initialized' event: a
\* call that has sent its launch/attach request and awaits the event goes on
\* because the event was received, or else fails.
C32_LaunchFailsByDeadline ==
    (launchPc = "awaitInitialized") ~> (waiters[Launch] = "resolved" \/ launchPc = "threw")

\* The 'initialized' event has been written by the adapter and dispatched.
InitializedDispatched ==
    /\ initializedEmitted /\ sessionState # "Terminated"
    /\ \A i \in 1..Len(inbox) : inbox[i].event # "initialized"

\* C13: launch/attach reaches readiness on the 'initialized' event in both
\* arrival orders.  Its waiter exists from before the initialize request is
\* sent, so a dispatched event is always observed; once the event has been
\* observed and the initialize Response received (in either order) and the
\* continuations have run, configurationDone has been sent; and it is never
\* sent while the event has not been observed.
C13_ReadyOnInitializedEvent ==
    /\ InitializeSeqs # {} => waiters[Launch] # "none"
    /\ waiters[Launch] = "pending" =>
          \E i \in 1..Len(listeners.initialized) : listeners.initialized[i] = Launch
    /\ InitializedDispatched => waiters[Launch] = "resolved"
    /\ (/\ waiters[Launch] = "resolved" /\ jobs = <<>>
        /\ \E s \in InitializeSeqs : requests[s].result.kind = "ok")
          => (launchPc = "returned" /\ ConfigurationDoneSeqs # {})
    /\ ConfigurationDoneSeqs # {} => waiters[Launch] = "resolved"

\* The event came before the initialize Response (a setBreakpoints request,
\* sent on the event, precedes the launch request, sent on the Response), and
\* launch has gone on to configurationDone.
C13_Witness ==
    /\ launchPc = "returned" /\ ConfigurationDoneSeqs # {}
    /\ \E s \in DOMAIN requests : \E l \in LaunchSeqs :
          requests[s].command = "setBreakpoints" /\ s < l

\* (checked under SpecTeardown)
\* C6: once terminate() has killed the adapter process and the process has
\* exited, no request is pending, and every request issued since then has
\* failed with the session-terminated error without being written.
C6_FailsAfterTermination ==
    (killedByTerminate /\ exitNotified) =>
        \A s \in DOMAIN requests :
            /\ requests[s].result.kind # "pending"
            /\ (\A i \in 1..Len(sent) : sent[i] # s)
                  => requests[s].result.kind = "terminated"

\* A request was issued after the kill and the exit, and one that was
\* outstanding at the exit has failed.
C6_Witness ==
    /\ killedByTerminate /\ exitNotified
    /\ \E s \in DOMAIN requests : \A i \in 1..Len(sent) : sent[i] # s
    /\ \E i \in 1..Len(sent) : requests[sent[i]].result.kind = "terminated"

(***************************************************************************)
(* Properties of the stop waiters (checked under SpecStops).               *)
(***************************************************************************)
\* C3: a stop waiter never resolves with a 'stopped' event whose reason is
\* "initial": it resolves with the first event dispatched after its
\* registration whose reason is not "initial", and stays pending as long as
\* only "initial" events have been dispatched.
C3_SkipsInitialStops ==
    \A k \in 1..MaxStopWaiters :
        LET w == stopWaiters[k]
        IN  /\ w.state = "resolved" =>
                /\ w.event > w.since /\ w.event <= Len(stoppedSeen)
                /\ stoppedSeen[w.event] # "initial"
                /\ \A j \in (w.since + 1)..(w.event - 1) : stoppedSeen[j] = "initial"
            /\ w.state = "pending" =>
                \A j \in (w.since + 1)..Len(stoppedSeen) : stoppedSeen[j] = "initial"

\* A waiter saw two "initial" events before the event it resolved with.
C3_Witness ==
    \E k \in 1..MaxStopWaiters :
        /\ stopWaiters[k].state = "resolved"
        /\ stopWaiters[k].event >= stopWaiters[k].since + 3

\* The stop waiters whose handler is registered for 'stopped'.
RegisteredStopWaiters == {listeners.stopped[i] : i \in 1..Len(listeners.stopped)}

\* The stop waiters that have not resolved.
UnresolvedStopWaiters == {k \in 1..MaxStopWaiters : stopWaiters[k].state = "pending"}

\* C35: stop waiters do not leak and are one-shot.  In every state the
\* 'stopped' listeners registered by waitForStopEvent are those of its
\* unresolved waiters, one each; a listener stays registered across an
\* ignored "initial" event and is removed in the step that resolves its
\* waiter; a resolved waiter keeps the event it resolved with.
C35_StopWaitersOneShot ==
    /\ [](/\ RegisteredStopWaiters = UnresolvedStopWaiters
          /\ Len(listeners.stopped) = Cardinality(UnresolvedStopWaiters))
    /\ [][\A k \in 1..MaxStopWaiters :
            /\ stopWaiters[k].state = "resolved" => stopWaiters'[k] = stopWaiters[k]
            /\ (/\ stopWaiters[k].state = "pending"
                /\ Len(stoppedSeen') = Len(stoppedSeen) + 1
                /\ stoppedSeen'[Len(stoppedSeen')] = "initial")
                  => (/\ stopWaiters'[k].state = "pending"
                      /\ \E i \in 1..Len(listeners'.stopped) : listeners'.stopped[i] = k)
            /\ (stopWaiters[k].state = "pending" /\ stopWaiters'[k].state = "resolved")
                  => (/\ \A i \in 1..Len(listeners'.stopped) : listeners'.stopped[i] # k
                      /\ stopWaiters'[k].event = Len(stoppedSeen')
                      /\ Len(stoppedSeen') = Len(stoppedSeen) + 1)
       ]_vars

\* A waiter stayed registered across an "initial" event, resolved with the
\* next event, and a further event was dispatched after it had resolved
\* while another waiter was registered.
C35_Witness ==
    \E j, k \in 1..MaxStopWaiters :
        /\ stopWaiters[k].state = "resolved"
        /\ stopWaiters[k].event = stopWaiters[k].since + 2
        /\ Len(stoppedSeen) > stopWaiters[k].event
        /\ stoppedSeen[Len(stoppedSeen)] = "initial"
        /\ stopWaiters[j].state = "pending"
        /\ listeners.stopped = <<j>>

\* C15: waiters registered concurrently for the same event are each notified.
\* Whenever a stop waiter has resolved with an event, every other waiter that
\* was registered before that event and had not resolved earlier has resolved
\* with the same event: no waiter is left pending, or made to wait for a
\* later event, because another one took the event and removed its listener.
C15_EachWaiterNotified ==
    \A j, k \in 1..MaxStopWaiters :
        LET wj == stopWaiters[j]
            wk == stopWaiters[k]
        IN  (/\ wj.state = "resolved" /\ wk.state # "unused"
             /\ wk.since < wj.event
             /\ (wk.state = "resolved" => wk.event >= wj.event))
               => (wk.state = "resolved" /\ wk.event = wj.event)

\* Two waiters were registered when one event was dispatched, and both
\* resolved with it.
C15_Witness ==
    \E j, k \in 1..MaxStopWaiters :
        /\ j # k
        /\ stopWaiters[j].state = "resolved" /\ stopWaiters[k].state = "resolved"
        /\ stopWaiters[j].event = stopWaiters[k].event
        /\ listeners.stopped = <<>>

\* The message at the head of the queue is a 'stopped' event that resolves
\* its waiters.
StoppedAtHead ==
    /\ inbox # <<>> /\ Head(inbox).type = "event"
    /\ Head(inbox).event = "stopped" /\ Head(inbox).reason # "initial"

\* C14: Responses and Events are dispatched in arrival order.  A request
\* settles only in the step that dispatches its own Response from the head of
\* the queue; while a 'stopped' Event is ahead of it no outstanding request
\* settles, and the step that dispatches the Event resolves every pending stop
\* waiter while the request is still outstanding.
C14_WireOrder ==
    [][ \A s \in pendingRequests :
          /\ requests'[s].result.kind \in {"ok", "error"} =>
                /\ inbox # <<>> /\ Head(inbox).type = "response"
                /\ Head(inbox).request_seq = s
                /\ inbox' = Tail(inbox)
          /\ StoppedAtHead =>
                /\ requests'[s].result.kind \notin {"ok", "error"}
                /\ stoppedSeen' # stoppedSeen =>
                      /\ s \in pendingRequests'
                      /\ \A k \in 1..MaxStopWaiters :
                            stopWaiters[k].state = "pending"
                               => stopWaiters'[k].state = "resolved"
      ]_vars

\* A 'stopped' event is on the wire ahead of the Response to an outstanding
\* request while a stop waiter is registered.
C14_Witness ==
    /\ Len(inbox) = 2 /\ StoppedAtHead
    /\ inbox[2].type = "response" /\ inbox[2].request_seq \in pendingRequests
    /\ \E k \in 1..MaxStopWaiters : stopWaiters[k].state = "pending"

\* Every queued continuation can run.
JobsRunnable ==
    jobs # <<>> =>
        \/ Head(jobs) = Launch /\ launchPc \in {"awaitInitializeResp", "awaitInitialized"}
        \/ \E i \in 1..MaxBp :
              Head(jobs) = Bp(i) /\ bpPc[i] \in {"awaitInitialized", "awaitResponse"}

\* The session's bookkeeping.
SessionTypeOK ==
    /\ Len(requests) = sequence - 1
    /\ \A s \in pendingRequests : s \in DOMAIN requests /\ requests[s].result.kind = "pending"
    /\ \A s \in DOMAIN requests : requests[s].result.kind = "pending" => s \in pendingRequests
    /\ sessionState = "Terminated" => pendingRequests = {}


(***************************************************************************)
(* Properties of withTimeout (checked under SpecTimeout).                  *)
(***************************************************************************)
\* C36: withTimeout settles exactly once with whichever comes first: the
\* outcome of the wrapped promise (fulfilment or rejection) if it settles
\* before the deadline, otherwise a 'Timeout' error; neither the timer nor a
\* later settlement of the wrapped promise changes a settled result.
C36_FirstOutcomeWins ==
    /\ [](\A i \in 1..MaxWrapped :
            LET w == wrapped[i]
            IN  w.call = "called" =>
                  /\ w.result = "result" => w.promise = "fulfilled"
                  /\ w.result = "error" => w.promise = "rejected"
                  /\ w.result = "Timeout" => w.timer = "fired"
                  /\ (w.promise = "fulfilled" /\ w.reaction = "ran" /\ w.timer # "fired")
                        => w.result = "result"
                  /\ (w.promise = "rejected" /\ w.timer # "fired") => w.result = "error")
    /\ [][\A i \in 1..MaxWrapped :
            wrapped[i].result # "pending" => wrapped'[i].result = wrapped[i].result]_vars

\* What holds of a wrapped promise that is fulfilled or stays pending: the
\* first of the fulfilment and the timer decides, once; a rejection of the
\* wrapped promise leaves the result pending until the timer rejects it.
FirstOfFulfilmentAndTimerWins ==
    /\ [](\A i \in 1..MaxWrapped :
            LET w == wrapped[i]
            IN  w.call = "called" =>
                  /\ w.result = "result" => w.promise = "fulfilled"
                  /\ w.result # "error"
                  /\ w.result = "Timeout" => w.timer = "fired"
                  /\ (w.promise = "fulfilled" /\ w.reaction = "ran" /\ w.timer # "fired")
                        => w.result = "result"
                  /\ (w.promise = "rejected" /\ w.timer # "fired")
                        => (w.result = "pending" /\ w.timer = "armed" /\ w.unhandled))
    /\ [][\A i \in 1..MaxWrapped :
            wrapped[i].result # "pending" => wrapped'[i].result = wrapped[i].result]_vars

\* The wrapped promise was rejected before the deadline and the call ended
\* with the 'Timeout' error.
RejectionEndedAsTimeout ==
    \E i \in 1..MaxWrapped :
        /\ wrapped[i].promise = "rejected" /\ wrapped[i].unhandled
        /\ wrapped[i].result = "Timeout"

(***************************************************************************)
(* Properties of extractZip (checked under SpecZip).                       *)
(***************************************************************************)
ZipEntries == 1..Len(zip.entries)

\* The entries whose file is open for writing with data still to be written.
BeingWritten == {i \in ZipEntries : zip.file[i] \in {"writing", "ending"}}

\* The entries the handler has finished with by calling readEntry().
ReadOn == {i \in ZipEntries : zip.st[i] \in {"skipped", "done"}}

\* C38: extractZip processes the entries one at a time: readEntry() is called
\* exactly once per entry, and only after the entry was skipped or its data
\* was fully written and its mode set; at most one entry is being written;
\* and the promise is resolved only after 'end', when every selected entry
\* has been written.
C38_OneEntryAtATime ==
    /\ zip.phase = "open" => zip.requested = 1 + Cardinality(ReadOn)
    /\ \A i \in ZipEntries :
          zip.st[i] = "done" => zip.file[i] = "finished" /\ zip.mode[i]
    /\ Cardinality(BeingWritten) <= 1
    /\ zip.result.kind = "resolved" =>
          /\ zip.ended
          /\ \A i \in ZipEntries :
                zip.entries[i] # "skip" => zip.file[i] = "finished"

\* What the code does keep: one readEntry() per entry the handler has
\* finished with, one entry between its 'entry' event and its readEntry(),
\* and resolution only after 'end', when the read stream of every selected
\* entry has ended and its fs.chmod has called back.
OneEntryAtATimeUpToStreamEnd ==
    /\ zip.phase = "open" => zip.requested = 1 + Cardinality(ReadOn)
    /\ Cardinality({i \in ZipEntries :
                      zip.st[i] \in {"ensuring", "opening", "piping", "chmod"}}) <= 1
    /\ zip.result.kind = "resolved" =>
          /\ zip.ended
          /\ \A i \in ZipEntries : zip.st[i] \in {"skipped", "done"}

\* readEntry() was called for an extracted entry whose write stream still
\* holds data, and the next entry is being written at the same time.
TwoFilesBeingWritten == Cardinality(BeingWritten) = 2

\* The promise is resolved while the last file is not fully written.
ResolvedBeforeFlush ==
    /\ zip.result.kind = "resolved"
    /\ \E i \in ZipEntries : zip.entries[i] = "file" /\ zip.file[i] = "ending"

\* C39: when the destination directory of an entry cannot be created,
\* extractZip rejects with that error, and neither opens a read stream nor
\* writes a file for that entry.
C39_DirectoryFailureStopsEntry ==
    \A i \in ZipEntries :
        (zip.entries[i] = "mkdirFails" /\ zip.st[i] \notin {"unread", "ensuring"}) =>
            /\ zip.result = ZipError("mkdir", i)
            /\ zip.st[i] = "failed"
            /\ zip.file[i] = "none"

\* The rejection itself is delivered: once ensureDirectory has failed for an
\* entry the promise is rejected, with that error unless it was settled before.
DirectoryFailureRejects ==
    \A i \in ZipEntries :
        (zip.entries[i] = "mkdirFails" /\ zip.st[i] \notin {"unread", "ensuring"}) =>
            zip.result.kind = "rejected"

\* A write stream was created for an entry whose directory is missing.
FileCreatedWithoutDirectory ==
    \E i \in ZipEntries : zip.entries[i] = "mkdirFails" /\ zip.file[i] # "none"

(***************************************************************************)
(* Properties of compareVariables as a subset check (under SpecSubset).    *)
(***************************************************************************)
\* The key paths of an expected object, '$' left out.
RECURSIVE ExpectedPaths(_, _)
ExpectedPaths(exp, prefix) ==
    UNION {IF exp[i].key = "$" THEN {}
           ELSE {Append(prefix, exp[i].key)}
                \cup (IF exp[i].val.kind = "object"
                      THEN ExpectedPaths(exp[i].val.fields, Append(prefix, exp[i].key))
                      ELSE {})
           : i \in 1..Len(exp)}

\* The observed node a key path names, from the children of varRef on.
RECURSIVE NodeAtPath(_, _, _)
NodeAtPath(varRef, path, i) ==
    LET node == VarsLookup(VariablesResponse(varRef), path[i])
    IN  IF i = Len(path) \/ node = Undefined THEN node
        ELSE NodeAtPath(node.variablesReference, path, i + 1)

\* The expected value at a key path.
RECURSIVE ExpectedAt(_, _, _)
ExpectedAt(exp, path, i) ==
    LET val == (CHOOSE e \in {exp[k] : k \in 1..Len(exp)} : e.key = path[i]).val
    IN  IF i = Len(path) THEN val ELSE ExpectedAt(val.fields, path, i + 1)

\* The position of a key path among the lookups of the call, 0 if none.
VisitIndex(path) ==
    LET at == {k \in 1..Len(cmpResult.visited) : cmpResult.visited[k] = path}
    IN  IF at = {} THEN 0 ELSE CHOOSE k \in at : \A j \in at : k <= j

\* The node at a key path is a container the call goes into: an object is
\* expected of it, its summary agrees, and its reference is not zero.
VisitedContainer(path) ==
    LET node == NodeAtPath(varRefArg, path, 1)
        val == ExpectedAt(expected, path, 1)
    IN  /\ VisitIndex(path) > 0
        /\ node # Undefined
        /\ val.kind = "object"
        /\ ~SummaryMismatch(node, SummaryOf(val.fields))
        /\ node.variablesReference # 0

\* C40: compareVariables is a subset check over names.  Observed nodes that
\* no expected key names never change the outcome; every expected key but
\* '$' must name an observed node, and a missing one fails with its key path
\* whatever is expected of it; and one 'variables' request is sent per
\* container gone into, in the order the containers are looked up, the
\* request for the next being sent after the children of the one before
\* were compared.
C40_SubsetCheckOverNames ==
    /\ [](cmpPc \in {"done", "again"} =>
            /\ \A k \in 1..Len(cmpResult.errors) :
                  cmpResult.errors[k].path \in {<<>>} \cup ExpectedPaths(expected, <<>>)
            /\ \A k \in 1..Len(cmpResult.visited) :
                  NodeAtPath(varRefArg, cmpResult.visited[k], 1) = Undefined
                     => FailedWith("notFound", cmpResult.visited[k])
            /\ cmpResult.status = "passed" =>
                  \A p \in ExpectedPaths(expected, <<>>) :
                      NodeAtPath(varRefArg, p, 1) # Undefined
            /\ varRefArg # 0 =>
                  /\ cmpResult.requested[1] = [ref |-> varRefArg, path |-> <<>>]
                  /\ RequestedPaths =
                        {<<>>} \cup {p \in ExpectedPaths(expected, <<>>) : VisitedContainer(p)}
            /\ \A j, k \in 1..Len(cmpResult.requested) :
                  j < k =>
                     /\ cmpResult.requested[j].path # cmpResult.requested[k].path
                     /\ VisitIndex(cmpResult.requested[j].path)
                           < VisitIndex(cmpResult.requested[k].path)
                     /\ \A v \in 1..Len(cmpResult.visited) :
                           (Len(cmpResult.visited[v]) > 1
                            /\ <<cmpResult.visited[v][1]>> = cmpResult.requested[j].path)
                              => v < VisitIndex(cmpResult.requested[k].path))
    /\ [][cmpPc' = "again" => cmpResult' = cmpResult]_vars

\* The adapter reported d beside a and b, and among the children of both;
\* the call went into a and then into b, and returned.
C40_Witness ==
    /\ cmpPc = "done" /\ varRefArg = 1
    /\ \E k \in 1..Len(variables[1]) : variables[1][k].name = "d"
    /\ \E k \in 1..Len(variables[2]) : variables[2][k].name = "d"
    /\ cmpResult.status = "passed"
    /\ cmpResult.requested =
          <<[ref |-> 1, path |-> <<>>], [ref |-> 2, path |-> <<"a">>],
            [ref |-> 2, path |-> <<"b">>]>>

\* A node that is only required to exist is missing, and the call failed
\* with its key path.
MissingPresenceOnlyNodeFails ==
    /\ cmpPc = "done" /\ varRefArg = 1
    /\ expected[1] = Entry("a", ExpNull)
    /\ FailedWith("notFound", <<"a">>)

\* The call was made again without the extra variables.
ComparedWithoutExtras ==
    /\ cmpPc = "again" /\ cmpResult.status = "failed"
    /\ \A k \in 1..Len(variables[1]) : variables[1][k].name # "d"
====
